---------------------------- MODULE Spec2Model ----------------------------
(***************************************************************************)
(* A model of Termin API (sidgaikwad/triggr): the file-backed              *)
(* StorageService, the HttpService request pipeline and its variable       *)
(* resolver, as found in src/src/index.tsx.                                *)
(*                                                                         *)
(* The specifications of the module:                                       *)
(*   Spec         the StorageService over a storage directory              *)
(*   SpecResolve  HttpService.processVariables as a pure function          *)
(*   SpecSend     HttpService.sendRequest, from build to outcome           *)
(*   SpecHistory  the StorageService over config.json and history.json     *)
(*   SpecTui      the App and its RequestBuilder starting sends            *)
(*   SpecEdit     the App and its RequestBuilder saving requests           *)
(*   SpecCli      the commands of the CLI, each a process over the store   *)
(*   SpecRetry    the store operations a caller may repeat                 *)
(*   SpecMap      the collections of the store, from an empty directory    *)
(*   SpecSendFair SpecSend on a transport that settles every call          *)
(*   SpecBrowser  the CollectionBrowser and its cursor                     *)
(* Each leaves the variables of the others at their idle values.           *)
(***************************************************************************)
EXTENDS Integers, Sequences, FiniteSets, TLC

VARIABLES
  now,        \* the wall clock in ms, as read by Date.now() / new Date()
  cdir,       \* ~/.termin-api/collections: file name -> file content
  edir,       \* ~/.termin-api/environments: file name -> file content
  configFile, \* ~/.termin-api/config.json
  history,    \* ~/.termin-api/history.json (a JSON array, most recent first)
  nextEntry,  \* the number of history entries handed to addToHistory so far
  ret,        \* what the last StorageService call did and returned
  rText,      \* processVariables: the text given
  rVars,      \* processVariables: the envVars given
  rOut,       \* processVariables: the text returned
  rDone,      \* processVariables: whether the call has returned
  sReq,       \* sendRequest: the request given
  sVars,      \* sendRequest: the envVars given
  sPc,        \* sendRequest: "idle", "inflight" (awaiting axios), "returned", "raised"
  sConfig,    \* sendRequest: the config axios was called with
  sTransport, \* sendRequest: what the transport did with the call
  sOutcome,   \* sendRequest: the Response returned or the Error thrown
  selectedRequest, \* App.state.selectedRequest: null or a request
  loading,    \* App.state.loading
  response,   \* App.state.response: "null", "response" or "error"
  builderUrl, \* RequestBuilder.state.url
  builder,    \* RequestBuilder.state: method, params, headers, body, auth
  activeTab,  \* App.state.activeTab
  edits,      \* the changes the user has made in the RequestBuilder's form so far
  inFlight,   \* the sendRequest calls of the App awaiting axios
  axiosCalls, \* the config the App's send called axios with last, if any has
  latestInFlight, \* the send the App began last is still awaiting axios
  rejected,   \* a sendRequest call of the App threw before axios; its catch has not run
  shown,      \* whose outcome the App's response is: "none", "latest", "older"
  collections, \* App.state.collections: the collections as the App holds them
  selectedCollection, \* App.state.selectedCollection: null or a collection id
  created,    \* the requests the user has made so far (new, or typed from nothing)
  aliases,    \* the request objects that are one object: sets of places
  selectedIndex, \* CollectionBrowser.state.selectedIndex, counted from 0
  expandedCollections, \* CollectionBrowser.state.expandedCollections: collection ids
  expandedFolders, \* CollectionBrowser.state.expandedFolders: folder ids
  cliCmd,     \* the CLI process: the command line it was started with
  cliPc,      \* the CLI process: "shell" (none yet), "importing", "awaiting" (axios),
              \* "rejected", "exited"
  cliExit,    \* the CLI process: its exit status once exited
  cliStderr,  \* the CLI process: whether an error message went to stderr
  cliRaised,  \* the CLI process: whether an operation it called raised
  cliSent,    \* the CLI process: what run handed to sendRequest and axios
  outFile     \* the file at the output path of exportCollection

storeVars == <<now, cdir, edir, configFile, history, nextEntry, ret>>

resolveVars == <<rText, rVars, rOut, rDone>>

sendVars == <<sReq, sVars, sPc, sConfig, sTransport, sOutcome>>

editVars == <<collections, selectedCollection, created, aliases>>

formVars == <<builder, activeTab, edits>>

tuiVars == <<selectedRequest, loading, response, builderUrl, formVars, inFlight,
             axiosCalls, latestInFlight, rejected, shown, editVars>>

\* The store but for its clock.
diskVars == <<cdir, edir, configFile, history, nextEntry, ret>>

cliVars == <<cliCmd, cliPc, cliExit, cliStderr, cliRaised, cliSent, outFile>>

browserVars == <<selectedIndex, expandedCollections, expandedFolders>>

uiVars == <<tuiVars, cliVars, browserVars>>

(***************************************************************************)
(* Bounds of the model.                                                    *)
(***************************************************************************)
MaxTime == 3
MaxEntries == 5
MaxCap == 3
MaxSegs == 4
MaxInFlight == 2
MaxNew == 2
MaxEdits == 3

\* The files already on disk were written at these clock readings, and the
\* first state is the next reading.
InitialStems == {0, 1}

InitTime == Cardinality(InitialStems)

(***************************************************************************)
(* Files and documents.                                                    *)
(***************************************************************************)

\* Collection ids are `col_${Date.now()}`: an id is the reading it was made of.
\* A document keeps the fields the store reads or stamps, a name as payload,
\* and, for a collection, its requests and its folders (each a list of
\* request ids).
Doc(i, nm, c, u) ==
  [id |-> i, name |-> nm, createdAt |-> c, updatedAt |-> u,
   requests |-> <<>>, folders |-> <<>>]

\* A folder of a collection.
Folder(i, requestIds) == [id |-> i, requests |-> requestIds]

NoDoc == Doc(0, "", 0, 0)

\* The content of a file: text that JSON.parse accepts (valid, with the
\* document it holds) or text it throws on.
Parseable(d) == [valid |-> TRUE, doc |-> d]
Corrupt == [valid |-> FALSE, doc |-> NoDoc]

\* `${id}.json`, and any other file a directory may hold.
JsonName(i) == [stem |-> i, ext |-> "json"]
OtherName(i) == [stem |-> i, ext |-> "bak"]

\* file.endsWith(".json")
EndsWithJson(name) == name.ext = "json"

\* A directory without files.
EmptyDir == [n \in {} |-> Corrupt]

\* fs.writeFileSync(path, text): create or overwrite one file.
WriteFile(dir, name, content) ==
  [n \in DOMAIN dir \cup {name} |-> IF n = name THEN content ELSE dir[n]]

\* fs.unlinkSync(path)
Unlink(dir, name) == [n \in DOMAIN dir \ {name} |-> dir[n]]

\* fs.readdirSync(dir): the names, here in name order.
NameBefore(a, b) ==
  \/ a.stem < b.stem
  \/ a.stem = b.stem /\ a.ext = "bak" /\ b.ext = "json"

RECURSIVE ReadDir(_)
ReadDir(names) ==
  IF names = {} THEN <<>>
  ELSE LET first == CHOOSE a \in names : \A b \in names \ {a} : NameBefore(a, b)
       IN <<first>> \o ReadDir(names \ {first})

(***************************************************************************)
(* loadCollections / loadEnvironments.                                     *)
(***************************************************************************)

\* The forEach over the directory listing: every .json file is read and
\* parsed, the document pushed.  JSON.parse throwing leaves the loop.
RECURSIVE ReadAll(_, _, _)
ReadAll(dir, files, acc) ==
  IF files = <<>> THEN [threw |-> FALSE, list |-> acc]
  ELSE LET file == Head(files) IN
       IF ~EndsWithJson(file) THEN ReadAll(dir, Tail(files), acc)
       ELSE IF ~dir[file].valid THEN [threw |-> TRUE, list |-> acc]
       ELSE ReadAll(dir, Tail(files), Append(acc, dir[file].doc))

\* try { ...forEach...; return list } catch (error) { return [] }
LoadDir(dir) ==
  LET r == ReadAll(dir, ReadDir(DOMAIN dir), <<>>)
  IN IF r.threw THEN <<>> ELSE r.list

LoadCollections(dir) == LoadDir(dir)

LoadEnvironments(dir) == LoadDir(dir)

(***************************************************************************)
(* saveCollection / deleteCollection / importCollection.                   *)
(***************************************************************************)

\* A reading of the clock at or after `from`: consecutive readings within one
\* call are the same millisecond or the next.
Readings(from) == {t \in from .. (from + 1) : t <= MaxTime}

\* collection.updatedAt = new Date().toISOString()
Stamp(c, t) == [c EXCEPT !.updatedAt = t]

\* saveCollection stamping createdAt as well.
SaveCollectionStampingBoth(dir, c, t) ==
  WriteFile(dir, JsonName(c.id), Parseable([Stamp(c, t) EXCEPT !.createdAt = t]))

\* saveCollection(collection) at clock reading t: the directory afterwards.
SaveCollection(dir, c, t) == WriteFile(dir, JsonName(c.id), Parseable(Stamp(c, t)))

\* deleteCollection removing every collection file.
DeleteCollectionClearing(dir, i) ==
  IF JsonName(i) \in DOMAIN dir THEN EmptyDir ELSE dir

\* deleteCollection(collectionId)
DeleteCollection(dir, i) ==
  IF JsonName(i) \in DOMAIN dir THEN Unlink(dir, JsonName(i)) ELSE dir

\* importCollection's new identity: id, createdAt and updatedAt from three
\* readings of the clock.
NewIdentity(dir, c, t1, t2, t3) ==
  [c EXCEPT !.id = t1, !.createdAt = t2, !.updatedAt = t3]

\* importCollection making the file of the new id before it parses the source.
ImportCollectionCreating(dir, src, t1, t2, t3, t4) ==
  IF ~src.valid
  THEN [raised |-> TRUE, dir |-> WriteFile(dir, JsonName(t1), Corrupt), doc |-> NoDoc]
  ELSE LET c == NewIdentity(dir, src.doc, t1, t2, t3)
       IN [raised |-> FALSE, dir |-> SaveCollection(dir, c, t4), doc |-> c]

\* importCollection(sourcePath) on the file src, with its four readings of
\* the clock: reading or parsing that throws is rethrown before anything is
\* written; else the document gets its new identity and is saved.
ImportCollection(dir, src, t1, t2, t3, t4) ==
  IF ~src.valid
  THEN [raised |-> TRUE, dir |-> dir, doc |-> NoDoc]
  ELSE LET c == NewIdentity(dir, src.doc, t1, t2, t3)
       IN [raised |-> FALSE, dir |-> SaveCollection(dir, c, t4), doc |-> c]

\* A mutant of ExportCollection: the output file made before the source is
\* looked for.
ExportCollectionCreating(dir, i, out) ==
  IF JsonName(i) \in DOMAIN dir
  THEN [raised |-> FALSE, out |-> [exists |-> TRUE, content |-> dir[JsonName(i)]]]
  ELSE [raised |-> TRUE, out |-> [exists |-> TRUE, content |-> Corrupt]]

\* exportCollection(collectionId, outputPath), out being the file at
\* outputPath, a path outside the store: the text read from the collection
\* file is written there, or "Collection not found" is thrown.
ExportCollection(dir, i, out) ==
  IF JsonName(i) \in DOMAIN dir
  THEN [raised |-> FALSE, out |-> [exists |-> TRUE, content |-> dir[JsonName(i)]]]
  ELSE [raised |-> TRUE, out |-> out]

\* saveEnvironment(environment): the document written as it is given.
SaveEnvironment(dir, e) == WriteFile(dir, JsonName(e.id), Parseable(e))

\* deleteEnvironment(environmentId)
DeleteEnvironment(dir, i) ==
  IF JsonName(i) \in DOMAIN dir THEN Unlink(dir, JsonName(i)) ELSE dir

(***************************************************************************)
(* config.json and history.json.                                           *)
(***************************************************************************)

\* The built-in defaults' maxHistorySize.
DefaultMaxHistorySize == 100

\* The built-in defaults' defaultTimeout, in ms.
DefaultConfigTimeout == 30000

\* A Config with the given maxHistorySize and defaultTimeout, the other
\* fields as in the defaults.
ConfigWith(n, timeout) ==
  [theme |-> "dark", defaultTimeout |-> timeout, followRedirects |-> TRUE,
   validateSSL |-> TRUE, maxHistorySize |-> n]

Config(n) == ConfigWith(n, DefaultConfigTimeout)

\* loadConfig with other defaults in its catch.
LoadConfigLightDefaults(file) ==
  IF file.valid THEN file.cfg
  ELSE [Config(DefaultMaxHistorySize) EXCEPT !.theme = "light"]

\* loadConfig(): the parsed file, or the defaults when reading throws.
LoadConfig(file) ==
  IF file.valid THEN file.cfg ELSE Config(DefaultMaxHistorySize)

\* loadHistory(): the parsed file, or [] when reading throws.
LoadHistory(file) == IF file.valid THEN file.list ELSE <<>>

\* Array.prototype.splice(start) for start >= 0: keeps the first `start`.
Splice(list, start) == SubSeq(list, 1, IF start < Len(list) THEN start ELSE Len(list))

\* A mutant of AddedHistory: push instead of unshift.
AddedHistoryPushed(list, entry, cfg) ==
  LET h == Append(list, entry)
  IN IF Len(h) > cfg.maxHistorySize THEN Splice(h, cfg.maxHistorySize) ELSE h

\* history.unshift(entry); if (history.length > max) history.splice(max)
AddedHistory(list, entry, cfg) ==
  LET h == <<entry>> \o list
  IN IF Len(h) > cfg.maxHistorySize THEN Splice(h, cfg.maxHistorySize) ELSE h

HistoryFile(list) == [valid |-> TRUE, list |-> list]

ConfigFile(cfg) == [valid |-> TRUE, cfg |-> cfg]

\* Why readFileSync or JSON.parse throws on a file: it is not there, it
\* cannot be read, or its text is not JSON (a write that was cut short).
Failures == {"missing", "unreadable", "malformed"}

Unusable(why) == [valid |-> FALSE, why |-> why]

\* fs.writeFileSync(path, text) throws on a path that cannot be opened (a
\* directory is there, EISDIR); a missing file is created and a malformed
\* one overwritten.
WriteThrows(file) == ~file.valid /\ file.why = "unreadable"

\* saveConfig(config): the file written, or the throw logged and rethrown.
SaveConfig(file, cfg) ==
  IF WriteThrows(file) THEN [raised |-> TRUE, file |-> file]
  ELSE [raised |-> FALSE, file |-> ConfigFile(cfg)]

\* addToHistory(entry): the file written; a throw is logged and swallowed.
AddToHistory(file, entry, cfg) ==
  IF WriteThrows(file) THEN file
  ELSE HistoryFile(AddedHistory(LoadHistory(file), entry, cfg))

\* clearHistory(): [] written, or the throw logged and rethrown.
ClearHistory(file) ==
  IF WriteThrows(file) THEN [raised |-> TRUE, file |-> file]
  ELSE [raised |-> FALSE, file |-> HistoryFile(<<>>)]

\* !fs.existsSync(path)
Missing(file) == ~file.valid /\ file.why = "missing"

\* ensureDirectories(), run by the constructor of the StorageService: a
\* missing config.json is created with the defaults, a missing history.json
\* holding [].  (The directories of the model are always there.)
EnsuredConfig(file) ==
  IF Missing(file) THEN SaveConfig(file, Config(DefaultMaxHistorySize)).file ELSE file

EnsuredHistory(file) ==
  IF Missing(file) THEN HistoryFile(<<>>) ELSE file

(***************************************************************************)
(* HttpService.processVariables.  A text is a sequence of characters; the  *)
(* envVars object is a function from names to values, both texts.          *)
(***************************************************************************)

\* What String.prototype.trim() strips: the WhiteSpace and LineTerminator
\* code points (a character outside printable ASCII is written by its name,
\* "<U+XXXX>", the five with a JSON short escape "<BS>", "<TAB>", ...).
TrimWhitespace ==
  {" ", "<TAB>", "<LF>", "<FF>", "<CR>", "<U+000B>", "<U+00A0>", "<U+1680>",
   "<U+2000>", "<U+2001>", "<U+2002>", "<U+2003>", "<U+2004>", "<U+2005>",
   "<U+2006>", "<U+2007>", "<U+2008>", "<U+2009>", "<U+200A>", "<U+2028>",
   "<U+2029>", "<U+202F>", "<U+205F>", "<U+3000>", "<U+FEFF>"}

RECURSIVE TrimStart(_)
TrimStart(s) ==
  IF s # <<>> /\ Head(s) \in TrimWhitespace THEN TrimStart(Tail(s)) ELSE s

RECURSIVE TrimEnd(_)
TrimEnd(s) ==
  IF s # <<>> /\ s[Len(s)] \in TrimWhitespace
  THEN TrimEnd(SubSeq(s, 1, Len(s) - 1)) ELSE s

Trim(s) == TrimEnd(TrimStart(s))

\* The index of the first "}" of text at or after i, or Len(text) + 1.
RECURSIVE FirstClose(_, _)
FirstClose(text, i) ==
  IF i > Len(text) \/ text[i] = "}" THEN i ELSE FirstClose(text, i + 1)

\* /\{\{([^}]+)\}\}/ tried at index i: 0 when it does not match there, else
\* the index of the first "}" of the closing pair ([^}]+ takes every
\* character up to the first "}", at least one, and "}}" must follow).
MatchAt(text, i) ==
  IF i + 1 <= Len(text) /\ text[i] = "{" /\ text[i + 1] = "{"
  THEN LET j == FirstClose(text, i + 2)
       IN IF j >= i + 3 /\ j + 1 <= Len(text) /\ text[j + 1] = "}"
          THEN j ELSE 0
  ELSE 0

\* "__proto__": the accessor of Object.prototype; assigning a string to it
\* on a plain object sets nothing.
ProtoKey == <<"_", "_", "p", "r", "o", "t", "o", "_", "_">>

\* The methods every object inherits from Object.prototype.
InheritedMethods ==
  {<<"c", "o", "n", "s", "t", "r", "u", "c", "t", "o", "r">>,
   <<"t", "o", "S", "t", "r", "i", "n", "g">>,
   <<"t", "o", "L", "o", "c", "a", "l", "e", "S", "t", "r", "i", "n", "g">>,
   <<"v", "a", "l", "u", "e", "O", "f">>,
   <<"h", "a", "s", "O", "w", "n", "P", "r", "o", "p", "e", "r", "t", "y">>,
   <<"i", "s", "P", "r", "o", "t", "o", "t", "y", "p", "e", "O", "f">>,
   <<"p", "r", "o", "p", "e", "r", "t", "y", "I", "s", "E", "n", "u", "m", "e", "r", "a", "b", "l", "e">>,
   <<"_", "_", "d", "e", "f", "i", "n", "e", "G", "e", "t", "t", "e", "r", "_", "_">>,
   <<"_", "_", "d", "e", "f", "i", "n", "e", "S", "e", "t", "t", "e", "r", "_", "_">>,
   <<"_", "_", "l", "o", "o", "k", "u", "p", "G", "e", "t", "t", "e", "r", "_", "_">>,
   <<"_", "_", "l", "o", "o", "k", "u", "p", "S", "e", "t", "t", "e", "r", "_", "_">>}

\* String(f) of a built-in function f named name.
NativeFunction(name) ==
  <<"f", "u", "n", "c", "t", "i", "o", "n", " ">> \o name
    \o <<"(", ")", " ", "{", " ", "[", "n", "a", "t", "i", "v", "e", " ", "c", "o", "d", "e", "]", " ", "}">>

\* String(envVars[name]) for a name envVars inherits: the constructor is the
\* function Object, __proto__ is Object.prototype itself.
Inherited(name) ==
  IF name = ProtoKey THEN <<"[", "o", "b", "j", "e", "c", "t", " ", "O", "b", "j", "e", "c", "t", "]">>
  ELSE IF name = <<"c", "o", "n", "s", "t", "r", "u", "c", "t", "o", "r">> THEN NativeFunction(<<"O", "b", "j", "e", "c", "t">>)
  ELSE NativeFunction(name)

\* The replace callback: envVars[varName.trim()] || match.  An own key
\* comes first; a name the object inherits reads a truthy object; any other
\* reads undefined, and undefined and "" are both falsy.
Replacement(envVars, varName, match) ==
  LET trimmedName == Trim(varName)
  IN IF trimmedName \in DOMAIN envVars
     THEN (IF envVars[trimmedName] # <<>> THEN envVars[trimmedName] ELSE match)
     ELSE IF trimmedName \in InheritedMethods \cup {ProtoKey}
     THEN Inherited(trimmedName)
     ELSE match

\* text.replace(variableRegex, callback) with the g flag, from index i on:
\* matches are taken leftmost first and do not overlap; what a callback
\* returns is not scanned again.
RECURSIVE ReplaceFrom(_, _, _)
ReplaceFrom(text, i, envVars) ==
  IF i > Len(text) THEN <<>>
  ELSE LET j == MatchAt(text, i) IN
       IF j = 0 THEN <<text[i]>> \o ReplaceFrom(text, i + 1, envVars)
       ELSE Replacement(envVars, SubSeq(text, i + 2, j - 1), SubSeq(text, i, j + 1))
              \o ReplaceFrom(text, j + 2, envVars)

\* processVariables(text, envVars) with parseJSON = false.
ProcessVariables(text, envVars) == ReplaceFrom(text, 1, envVars)

\* The texts of the resolver's specification: up to MaxSegs of these pieces.
Pieces ==
  {<<"{", "{", "a", "}", "}">>, <<"{", "{">>, <<"}", "}">>, <<"a">>, <<"b">>,
   <<" ">>, <<"{">>, <<"}">>, <<"v", "a", "l", "u", "e", "O", "f">>}

RECURSIVE TextsOf(_)
TextsOf(n) ==
  IF n = 0 THEN {<<>>}
  ELSE LET shorter == TextsOf(n - 1)
       IN shorter \cup {t \o p : t \in shorter, p \in Pieces}

\* An envVars object, from its (name, value) pairs.
EmptyVars == [n \in {} |-> <<>>]

WithVar(envVars, name, value) ==
  [n \in DOMAIN envVars \cup {name} |-> IF n = name THEN value ELSE envVars[n]]

\* The envVars of the resolver's specification: a value, an empty value, a
\* value that is itself a placeholder, a missing name.
VarMaps ==
  {EmptyVars,
   WithVar(EmptyVars, <<"a">>, <<"x">>),
   WithVar(EmptyVars, <<"a">>, <<>>),
   WithVar(WithVar(EmptyVars, <<"a">>, <<"x">>), <<"b">>, <<>>),
   WithVar(WithVar(EmptyVars, <<"a">>, <<"{", "{", "b", "}", "}">>),
           <<"b">>, <<"y">>)}

(***************************************************************************)
(* Characters, Base64 and the form encoding, for HttpService.applyAuth and *)
(* HttpService.processBody.                                                *)
(***************************************************************************)

\* The printable ASCII characters in code order: Ascii[1] has code 32 (the
\* grave accent, code 96, is written "<96>").
Ascii ==
  <<" ", "!", "\"", "#", "$", "%", "&", "'", "(", ")", "*", "+", ",", "-",
    ".", "/", "0", "1", "2", "3", "4", "5", "6", "7", "8", "9", ":", ";",
    "<", "=", ">", "?", "@", "A", "B", "C", "D", "E", "F", "G", "H", "I",
    "J", "K", "L", "M", "N", "O", "P", "Q", "R", "S", "T", "U", "V", "W",
    "X", "Y", "Z", "[", "\\", "]", "^", "_", "<96>", "a", "b", "c", "d", "e",
    "f", "g", "h", "i", "j", "k", "l", "m", "n", "o", "p", "q", "r", "s",
    "t", "u", "v", "w", "x", "y", "z", "{", "|", "}", "~">>

CharCode(c) == 31 + (CHOOSE i \in 1 .. Len(Ascii) : Ascii[i] = c)

\* Buffer.from(text): the bytes of an ASCII text.
Bytes(text) == [i \in 1 .. Len(text) |-> CharCode(text[i])]

Base64Alphabet ==
  <<"A", "B", "C", "D", "E", "F", "G", "H", "I", "J", "K", "L", "M", "N",
    "O", "P", "Q", "R", "S", "T", "U", "V", "W", "X", "Y", "Z", "a", "b",
    "c", "d", "e", "f", "g", "h", "i", "j", "k", "l", "m", "n", "o", "p",
    "q", "r", "s", "t", "u", "v", "w", "x", "y", "z", "0", "1", "2", "3",
    "4", "5", "6", "7", "8", "9", "+", "/">>

Sextet(n) == Base64Alphabet[(n % 64) + 1]

\* Buffer.prototype.toString("base64")
RECURSIVE Base64(_)
Base64(bytes) ==
  IF bytes = <<>> THEN <<>>
  ELSE IF Len(bytes) = 1
  THEN LET n == bytes[1] * 65536
       IN <<Sextet(n \div 262144), Sextet(n \div 4096), "=", "=">>
  ELSE IF Len(bytes) = 2
  THEN LET n == bytes[1] * 65536 + bytes[2] * 256
       IN <<Sextet(n \div 262144), Sextet(n \div 4096), Sextet(n \div 64), "=">>
  ELSE LET n == bytes[1] * 65536 + bytes[2] * 256 + bytes[3]
       IN <<Sextet(n \div 262144), Sextet(n \div 4096), Sextet(n \div 64), Sextet(n)>>
            \o Base64(SubSeq(bytes, 4, Len(bytes)))

HexDigits == <<"0", "1", "2", "3", "4", "5", "6", "7", "8", "9", "A", "B", "C", "D", "E", "F">>

\* URLSearchParams' serializer for one character: letters, digits and *-._
\* as they are, a space as "+", any other byte as %XX.
FormUnreserved ==
  {Ascii[i] : i \in 17 .. 26} \cup {Ascii[i] : i \in 34 .. 59}
    \cup {Ascii[i] : i \in 66 .. 91} \cup {"*", "-", ".", "_"}

FormEncodeChar(c) ==
  IF c \in FormUnreserved THEN <<c>>
  ELSE IF c = " " THEN <<"+">>
  ELSE <<"%", HexDigits[(CharCode(c) \div 16) + 1], HexDigits[(CharCode(c) % 16) + 1]>>

RECURSIVE FormEncode(_)
FormEncode(text) ==
  IF text = <<>> THEN <<>>
  ELSE FormEncodeChar(Head(text)) \o FormEncode(Tail(text))

(***************************************************************************)
(* JavaScript objects as the code uses them: the order of own properties.  *)
(***************************************************************************)

Digits == {"0", "1", "2", "3", "4", "5", "6", "7", "8", "9"}

\* 2^32 - 2, the largest array index.
MaxIndexText == <<"4", "2", "9", "4", "9", "6", "7", "2", "9", "4">>

\* a < b for two texts of digits without leading zeros.
RECURSIVE DigitsBefore(_, _)
DigitsBefore(a, b) ==
  IF Len(a) # Len(b) THEN Len(a) < Len(b)
  ELSE IF a = <<>> THEN FALSE
  ELSE IF Head(a) # Head(b) THEN CharCode(Head(a)) < CharCode(Head(b))
  ELSE DigitsBefore(Tail(a), Tail(b))

\* The key is an integer index ("0", "7", "12", not "01"): such keys are
\* enumerated first, in numeric order.
IsArrayIndex(key) ==
  /\ key # <<>>
  /\ \A i \in 1 .. Len(key) : key[i] \in Digits
  /\ Len(key) = 1 \/ key[1] # "0"
  /\ ~DigitsBefore(MaxIndexText, key)

\* object[key] = value as a data property: the entries in the order of
\* their first assignment.
SetMember(entries, key, value) ==
  LET at == {i \in 1 .. Len(entries) : entries[i].key = key}
  IN IF at = {} THEN Append(entries, [key |-> key, value |-> value])
     ELSE [i \in 1 .. Len(entries) |->
             IF i \in at THEN [key |-> key, value |-> value] ELSE entries[i]]

\* The entry put among entries whose index keys ascend.
RECURSIVE InsertIndex(_, _)
InsertIndex(sorted, entry) ==
  IF sorted = <<>> THEN <<entry>>
  ELSE IF DigitsBefore(entry.key, Head(sorted).key) THEN <<entry>> \o sorted
  ELSE <<Head(sorted)>> \o InsertIndex(Tail(sorted), entry)

RECURSIVE SortIndexes(_)
SortIndexes(entries) ==
  IF entries = <<>> THEN <<>>
  ELSE InsertIndex(SortIndexes(Tail(entries)), Head(entries))

\* The own properties of an object in the order they are enumerated: the
\* index keys ascending, then the other keys as they were first assigned.
OwnProperties(entries) ==
  SortIndexes(SelectSeq(entries, LAMBDA e : IsArrayIndex(e.key)))
    \o SelectSeq(entries, LAMBDA e : ~IsArrayIndex(e.key))

(***************************************************************************)
(* JSON.stringify of the bodies of the model (an object with the one       *)
(* member "t", a string) and JSON.parse of any text.                       *)
(***************************************************************************)
\* The control characters with a short escape, each one character.
ControlChars == {"<BS>", "<TAB>", "<LF>", "<FF>", "<CR>"}

\* The short escape of a control character.
ShortEscape(c) ==
  CASE c = "<BS>" -> "b" [] c = "<FF>" -> "f" [] c = "<LF>" -> "n"
    [] c = "<CR>" -> "r" [] c = "<TAB>" -> "t" [] OTHER -> c

HexSet == {HexDigits[i] : i \in 1 .. Len(HexDigits)}

\* The name of the code unit with the hex digits h.
UnitName(h) == "<U+" \o h[1] \o h[2] \o h[3] \o h[4] \o ">"

\* The hex digits of the characters below U+0020, of the high surrogates
\* (U+D800 .. U+DBFF) and of the low surrogates (U+DC00 .. U+DFFF).
ControlUnits == {<<"0", "0", a, b>> : a \in {"0", "1"}, b \in HexSet}
HighUnits == {<<"D", a, b, c>> : a \in {"8", "9", "A", "B"}, b \in HexSet, c \in HexSet}
LowUnits == {<<"D", a, b, c>> : a \in {"C", "D", "E", "F"}, b \in HexSet, c \in HexSet}

\* The characters below U+0020 without a short escape, and the surrogates.
OtherControls == {UnitName(h) : h \in ControlUnits}
HighSurrogates == {UnitName(h) : h \in HighUnits}
LowSurrogates == {UnitName(h) : h \in LowUnits}

LowerHex(c) ==
  CASE c = "A" -> "a" [] c = "B" -> "b" [] c = "C" -> "c"
    [] c = "D" -> "d" [] c = "E" -> "e" [] c = "F" -> "f" [] OTHER -> c

\* \uxxxx for the character c, one of the code units of units.
UnicodeEscape(c, units) ==
  LET h == CHOOSE u \in units : UnitName(u) = c
  IN <<"\\", "u", LowerHex(h[1]), LowerHex(h[2]), LowerHex(h[3]), LowerHex(h[4])>>

\* What JSON.stringify writes for the character c of a string: the quote,
\* the backslash and every character below U+0020 escaped, a surrogate
\* that is not one of a pair escaped.
JsonEscapeChar(c) ==
  IF c = "\"" THEN <<"\\", "\"">>
  ELSE IF c = "\\" THEN <<"\\", "\\">>
  ELSE IF c \in ControlChars THEN <<"\\", ShortEscape(c)>>
  ELSE IF c \in OtherControls THEN UnicodeEscape(c, ControlUnits)
  ELSE IF c \in HighSurrogates \cup LowSurrogates
  THEN UnicodeEscape(c, HighUnits \cup LowUnits)
  ELSE <<c>>

\* The characters of a JSON string literal for the text s, without the
\* quotes: a high surrogate and the low surrogate after it stay as they are.
RECURSIVE JsonEscape(_)
JsonEscape(s) ==
  IF s = <<>> THEN <<>>
  ELSE IF Len(s) >= 2 /\ s[1] \in HighSurrogates /\ s[2] \in LowSurrogates
  THEN <<s[1], s[2]>> \o JsonEscape(SubSeq(s, 3, Len(s)))
  ELSE JsonEscapeChar(Head(s)) \o JsonEscape(Tail(s))

JsonOpen == <<"{", "\"", "t", "\"", ":", "\"">>

JsonClose == <<"\"", "}">>

\* JSON.stringify({t: s}), no indent.
JsonStringify(s) == JsonOpen \o JsonEscape(s) \o JsonClose

\* A JSON value: a string, or a number as String() writes it, in text, the
\* elements of an array or the members of an object in items.
Json(kind, text, items) == [kind |-> kind, text |-> text, items |-> items]

JsonNull == Json("null", <<>>, <<>>)

\* The object {t: s}.
JsonObjectT(s) == Json("object", <<>>, <<[key |-> <<"t">>, value |-> Json("string", s, <<>>)]>>)

\* What a step of the parser gives: the value and the index after it, or a
\* SyntaxError (ok = FALSE).
Parsed(value, next) == [ok |-> TRUE, value |-> value, next |-> next]
SyntaxError == [ok |-> FALSE, value |-> JsonNull, next |-> 0]

\* The escapes JSON.parse accepts after a backslash (\uXXXX apart), and the
\* character each stands for.
JsonEscapes == {"\"", "\\", "/", "b", "f", "n", "r", "t"}

Unescaped(c) ==
  CASE c = "b" -> "<BS>" [] c = "f" -> "<FF>" [] c = "n" -> "<LF>"
    [] c = "r" -> "<CR>" [] c = "t" -> "<TAB>" [] OTHER -> c

UpperHex(c) ==
  CASE c = "a" -> "A" [] c = "b" -> "B" [] c = "c" -> "C"
    [] c = "d" -> "D" [] c = "e" -> "E" [] c = "f" -> "F" [] OTHER -> c

IsHex(c) == \E k \in 1 .. Len(HexDigits) : HexDigits[k] = UpperHex(c)

HexValue(c) == (CHOOSE k \in 1 .. Len(HexDigits) : HexDigits[k] = UpperHex(c)) - 1

\* The character of a code unit: an ASCII character as the model writes it,
\* any other by its name, "<U+XXXX>".
CharOfCode(code, name) ==
  IF code >= 32 /\ code <= 126 THEN Ascii[code - 31]
  ELSE CASE code = 8 -> "<BS>" [] code = 9 -> "<TAB>" [] code = 10 -> "<LF>"
         [] code = 12 -> "<FF>" [] code = 13 -> "<CR>" [] OTHER -> name

\* The character \uXXXX stands for.
CharOfEscape(h1, h2, h3, h4) ==
  CharOfCode(4096 * HexValue(h1) + 256 * HexValue(h2) + 16 * HexValue(h3) + HexValue(h4),
             "<U+" \o UpperHex(h1) \o UpperHex(h2) \o UpperHex(h3) \o UpperHex(h4) \o ">")

\* The string literal of text whose opening quote is before index i: the
\* value read so far in acc.  A result with ok = FALSE is a SyntaxError;
\* otherwise end is the index of the closing quote.
RECURSIVE JsonString(_, _, _)
JsonString(text, i, acc) ==
  IF i > Len(text) THEN [ok |-> FALSE, value |-> acc, end |-> i]
  ELSE IF text[i] = "\"" THEN [ok |-> TRUE, value |-> acc, end |-> i]
  ELSE IF text[i] = "\\"
  THEN IF i + 1 <= Len(text) /\ text[i + 1] \in JsonEscapes
       THEN JsonString(text, i + 2, Append(acc, Unescaped(text[i + 1])))
       ELSE IF /\ i + 5 <= Len(text)
               /\ text[i + 1] = "u"
               /\ \A k \in 2 .. 5 : IsHex(text[i + k])
       THEN JsonString(text, i + 6,
                       Append(acc, CharOfEscape(text[i + 2], text[i + 3],
                                                text[i + 4], text[i + 5])))
       ELSE [ok |-> FALSE, value |-> acc, end |-> i]
  ELSE IF text[i] \in ControlChars \cup OtherControls
  THEN [ok |-> FALSE, value |-> acc, end |-> i]
  ELSE JsonString(text, i + 1, Append(acc, text[i]))

\* The whitespace of JSON.
JsonWhitespace == {" ", "<TAB>", "<LF>", "<CR>"}

\* The first index at or after i that holds no whitespace.
RECURSIVE SkipWhitespace(_, _)
SkipWhitespace(text, i) ==
  IF i <= Len(text) /\ text[i] \in JsonWhitespace THEN SkipWhitespace(text, i + 1) ELSE i

\* The first index at or after i that holds no digit.
RECURSIVE SkipDigits(_, _)
SkipDigits(text, i) ==
  IF i <= Len(text) /\ text[i] \in Digits THEN SkipDigits(text, i + 1) ELSE i

IsDigitAt(text, i) == i <= Len(text) /\ text[i] \in Digits

\* The index after the digits that start at i, at least one, or 0.
DigitsEnd(text, i) == IF IsDigitAt(text, i) THEN SkipDigits(text, i + 1) ELSE 0

\* The index after 0|[1-9][0-9]* at i, or 0.
IntegerEnd(text, i) ==
  IF IsDigitAt(text, i) /\ text[i] = "0" THEN i + 1 ELSE DigitsEnd(text, i)

\* The index after (\.[0-9]+)? at i, or 0; i = 0 when the integer failed.
FractionEnd(text, i) ==
  IF i = 0 THEN 0
  ELSE IF i <= Len(text) /\ text[i] = "." THEN DigitsEnd(text, i + 1)
  ELSE i

\* The index after ([eE][+-]?[0-9]+)? at i, or 0.
ExponentEnd(text, i) ==
  IF i = 0 THEN 0
  ELSE IF i <= Len(text) /\ text[i] \in {"e", "E"}
  THEN DigitsEnd(text, IF i + 1 <= Len(text) /\ text[i + 1] \in {"+", "-"}
                       THEN i + 2 ELSE i + 1)
  ELSE i

\* The index after the number literal that starts at i, or 0 when none does:
\* -?(0|[1-9][0-9]*)(\.[0-9]+)?([eE][+-]?[0-9]+)?
NumberEnd(text, i) ==
  ExponentEnd(text, FractionEnd(text, IntegerEnd(text, IF text[i] = "-" THEN i + 1 ELSE i)))

\* The text has the word at index i.
HasWord(text, i, word) ==
  i + Len(word) - 1 <= Len(text) /\ SubSeq(text, i, i + Len(word) - 1) = word

(***************************************************************************)
(* The Number a JSON number literal denotes: the IEEE 754 double nearest   *)
(* to the decimal (ties to even), written as Number.prototype.toString     *)
(* writes it.  Naturals of any size are the sequences of their decimal     *)
(* digits, least significant first, without leading zeros (0 is <<>>).     *)
(***************************************************************************)

\* The natural without the zeros at its most significant end.
BigNormal(a) ==
  IF \A i \in 1 .. Len(a) : a[i] = 0 THEN <<>>
  ELSE SubSeq(a, 1, CHOOSE i \in 1 .. Len(a) : a[i] # 0 /\ \A j \in i + 1 .. Len(a) : a[j] = 0)

\* The digits of a natural that TLC's integers hold.
RECURSIVE SmallDigits(_)
SmallDigits(n) == IF n = 0 THEN <<>> ELSE <<n % 10>> \o SmallDigits(n \div 10)

\* The digits lo..hi of a * n + carry * 10^(lo - 1) and the carry out of
\* them, one half after the other.
RECURSIVE TimesPart(_, _, _, _, _)
TimesPart(a, lo, hi, n, carry) ==
  IF lo > hi THEN [digits |-> <<>>, carry |-> carry]
  ELSE IF lo = hi
  THEN [digits |-> <<(a[lo] * n + carry) % 10>>, carry |-> (a[lo] * n + carry) \div 10]
  ELSE LET low == TimesPart(a, lo, (lo + hi) \div 2, n, carry)
           high == TimesPart(a, (lo + hi) \div 2 + 1, hi, n, low.carry)
       IN [digits |-> low.digits \o high.digits, carry |-> high.carry]

WithCarry(part) == part.digits \o SmallDigits(part.carry)

\* a * n + carry, for n up to 2^27 and carry below n.
BigTimes(a, n, carry) == WithCarry(TimesPart(a, 1, Len(a), n, carry))

\* b^n for a small n.
RECURSIVE SmallPower(_, _)
SmallPower(b, n) == IF n = 0 THEN 1 ELSE b * SmallPower(b, n - 1)

\* a * b^n, for b^8 up to 2^27.
RECURSIVE BigTimesPower(_, _, _)
BigTimesPower(a, b, n) ==
  IF a = <<>> THEN <<>>
  ELSE IF n <= 8 THEN BigTimes(a, SmallPower(b, n), 0)
  ELSE BigTimesPower(BigTimesPower(a, b, n \div 2), b, n - n \div 2)

\* a * 10^n.
BigShift(a, n) == IF a = <<>> THEN <<>> ELSE [i \in 1 .. n |-> 0] \o a

\* a < b on the digits lo..hi, the more significant half first.
RECURSIVE BigLessIn(_, _, _, _)
BigLessIn(a, b, lo, hi) ==
  IF lo > hi THEN FALSE
  ELSE IF lo = hi THEN a[lo] < b[lo]
  ELSE IF SubSeq(a, (lo + hi) \div 2 + 1, hi) # SubSeq(b, (lo + hi) \div 2 + 1, hi)
  THEN BigLessIn(a, b, (lo + hi) \div 2 + 1, hi)
  ELSE BigLessIn(a, b, lo, (lo + hi) \div 2)

BigLess(a, b) == IF Len(a) # Len(b) THEN Len(a) < Len(b) ELSE BigLessIn(a, b, 1, Len(a))

\* The digit of b at i, 0 beyond its length.
BigDigit(b, i) == IF i <= Len(b) THEN b[i] ELSE 0

\* The digits lo..hi of a - b and the borrow out of them, for a >= b.
RECURSIVE MinusPart(_, _, _, _, _)
MinusPart(a, b, lo, hi, borrow) ==
  IF lo > hi THEN [digits |-> <<>>, borrow |-> borrow]
  ELSE IF lo = hi
  THEN [digits |-> <<(a[lo] - BigDigit(b, lo) - borrow + 10) % 10>>,
        borrow |-> IF a[lo] - BigDigit(b, lo) - borrow < 0 THEN 1 ELSE 0]
  ELSE LET low == MinusPart(a, b, lo, (lo + hi) \div 2, borrow)
           high == MinusPart(a, b, (lo + hi) \div 2 + 1, hi, low.borrow)
       IN [digits |-> low.digits \o high.digits, borrow |-> high.borrow]

BigSub(a, b) == BigNormal(MinusPart(a, b, 1, Len(a), 0).digits)

\* How many times b goes into a (n counted so far), and what is left.
RECURSIVE BigCount(_, _, _)
BigCount(a, b, n) ==
  IF BigLess(a, b) THEN [q |-> n, r |-> a] ELSE BigCount(BigSub(a, b), b, n + 1)

\* a divided by b > 0, for a quotient below 10^(j + 1): the digit j of the
\* quotient and those below it, q the digits above.
RECURSIVE BigDivide(_, _, _, _)
BigDivideOn(c, b, j, q) == BigDivide(c.r, b, j - 1, <<c.q>> \o q)
BigDivide(a, b, j, q) ==
  IF j < 0 THEN [q |-> BigNormal(q), r |-> a]
  ELSE BigDivideOn(BigCount(a, BigShift(b, j), 0), b, j, q)

\* A double: infinite, or m * 2^e with m below 2^53 and either m at least
\* 2^52 or e = MinExponent (0 is m = <<>>, e = 0).
MinExponent == -1074
MaxExponent == 971
Finite(m, e) == [inf |-> FALSE, m |-> m, e |-> e]
Infinite == [inf |-> TRUE, m |-> <<>>, e |-> 0]

Two26 == SmallPower(2, 26)
BigTimes52(a) == BigTimes(BigTimes(a, Two26, 0), Two26, 0)
BigTimes53(a) == BigTimes(BigTimes52(a), 2, 0)
Two52 == BigTimes52(<<1>>)
Two53 == BigTimes53(<<1>>)

\* u / v = (u / (v * 2^e)) * 2^e brought, by doubling u or v, to a quotient
\* from 2^52 to 2^53, or below 2^52 at e = MinExponent.
RECURSIVE Scaled(_, _, _)
ScaledBy(u, v, e, low, high) ==
  IF ~BigLess(u, high) THEN Scaled(u, BigTimes(v, 2, 0), e + 1)
  ELSE IF e > MinExponent /\ BigLess(u, low) THEN Scaled(BigTimes(u, 2, 0), v, e - 1)
  ELSE [u |-> u, v |-> v, e |-> e]
Scaled(u, v, e) == ScaledBy(u, v, e, BigTimes52(v), BigTimes(BigTimes52(v), 2, 0))

\* An exponent near that of u / v as a double, from the numbers of digits
\* (log2(10) is about 3.322).
NearExponent(u, v) ==
  IF ((Len(u) - Len(v) - 1) * 3322) \div 1000 - 53 < MinExponent THEN MinExponent
  ELSE ((Len(u) - Len(v) - 1) * 3322) \div 1000 - 53

ScaledFrom(u, v, e) ==
  Scaled(BigTimesPower(u, 2, IF e >= 0 THEN 0 ELSE -e),
         BigTimesPower(v, 2, IF e >= 0 THEN e ELSE 0), e)

\* The quotient d.q of a division by v with remainder d.r, to the nearest
\* natural, a tie to the even one.
NearestTo(q, twice, v) ==
  IF BigLess(v, twice) \/ (twice = v /\ q # <<>> /\ q[1] % 2 = 1)
  THEN BigTimes(q, 1, 1) ELSE q
Nearest(d, v) == NearestTo(d.q, BigTimes(d.r, 2, 0), v)

\* m * 2^e as a double: 2^53 is 2^52 with the next exponent, and what is
\* beyond the largest double is infinite.
AsDouble(m, e) ==
  IF m = <<>> THEN Finite(<<>>, 0)
  ELSE IF m = Two53
  THEN (IF e + 1 > MaxExponent THEN Infinite ELSE Finite(Two52, e + 1))
  ELSE IF e > MaxExponent THEN Infinite
  ELSE Finite(m, e)

\* 2^53 is below 10^16.
Rounded(s) == AsDouble(Nearest(BigDivide(s.u, s.v, 15, <<>>), s.v), s.e)

\* The double nearest to u / v, for u > 0.
NearestDouble(u, v) == Rounded(ScaledFrom(u, v, NearExponent(u, v)))

\* The double nearest to digits * 10^k.
DecimalDouble(digits, k) ==
  IF digits = <<>> THEN Finite(<<>>, 0)
  ELSE IF Len(digits) - 1 + k > 309 THEN Infinite
  ELSE IF Len(digits) - 1 + k < -325 THEN Finite(<<>>, 0)
  ELSE NearestDouble(BigShift(digits, IF k >= 0 THEN k ELSE 0),
                     BigShift(<<1>>, IF k >= 0 THEN 0 ELSE -k))

\* digits * 10^p.
Decimal(digits, p) == [ok |-> TRUE, digits |-> digits, p |-> p]
NoDecimal == [ok |-> FALSE, digits |-> <<>>, p |-> 0]

\* The decimal that is m * 2^e exactly.
Expansion(m, e) ==
  Decimal(BigTimesPower(m, IF e >= 0 THEN 2 ELSE 5, IF e >= 0 THEN e ELSE -e),
          IF e >= 0 THEN 0 ELSE e)

\* Of low * 10^p and high * 10^p, the nearer one (when nearLow, low) that
\* the double d is nearest to, if any.
Nearer(doubles, low, high, p, d, nearLow) ==
  IF doubles[1] = d /\ (nearLow \/ doubles[2] # d) THEN Decimal(low, p)
  ELSE IF doubles[2] = d THEN Decimal(high, p)
  ELSE NoDecimal

Among(low, high, p, d, nearLow) ==
  Nearer([i \in 1 .. 2 |-> DecimalDouble(<<low, high>>[i], p)], low, high, p, d, nearLow)

\* The decimal x cut to its n most significant digits is nearer to x than
\* the next one up (at the middle: it is even).
NearLow(digits, n) ==
  LET rest == BigTimes(BigNormal(SubSeq(digits, 1, Len(digits) - n)), 2, 0)
      unit == BigShift(<<1>>, Len(digits) - n)
  IN BigLess(rest, unit) \/ (rest = unit /\ digits[Len(digits) - n + 1] % 2 = 0)

\* The decimal of n digits nearest to x that d is the double of, if any.
Candidate(x, n, d) ==
  Among(SubSeq(x.digits, Len(x.digits) - n + 1, Len(x.digits)),
        BigTimes(SubSeq(x.digits, Len(x.digits) - n + 1, Len(x.digits)), 1, 1),
        x.p + Len(x.digits) - n, d, NearLow(x.digits, n))

\* The decimal of the fewest digits, n or more, that d is the double of; x
\* is d exactly.
RECURSIVE Shortest(_, _, _)
OrLonger(c, x, n, d) == IF c.ok THEN c ELSE Shortest(x, n + 1, d)
Shortest(x, n, d) ==
  IF n >= Len(x.digits) THEN x ELSE OrLonger(Candidate(x, n, d), x, n, d)

\* The number of zeros at the least significant end of a natural above 0.
LowZeros(a) == (CHOOSE i \in 1 .. Len(a) : a[i] # 0 /\ \A j \in 1 .. i - 1 : a[j] = 0) - 1

\* The decimal, above 0, without zeros at its least significant end.
Stripped(x) ==
  Decimal(SubSeq(x.digits, LowZeros(x.digits) + 1, Len(x.digits)), x.p + LowZeros(x.digits))

DigitChar(d) == Ascii[d + 17]
DigitValue(c) == CharCode(c) - 48

\* The characters of the digits from..to of s (numbered from the most
\* significant, 1).
DigitsText(s, from, to) == [i \in 1 .. to - from + 1 |-> DigitChar(s[Len(s) - (from + i - 1) + 1])]

Zeros(n) == [i \in 1 .. n |-> "0"]

\* The decimal digits of a natural n > 0 that TLC's integers hold.
RECURSIVE NaturalText(_)
NaturalText(n) ==
  IF n < 10 THEN <<DigitChar(n)>> ELSE NaturalText(n \div 10) \o <<DigitChar(n % 10)>>

\* Number::toString for the digits s (n of them) of a value s * 10^(k - n).
DecimalText(s, n, k) ==
  IF n <= k /\ k <= 21 THEN DigitsText(s, 1, n) \o Zeros(k - n)
  ELSE IF 0 < k /\ k <= 21 THEN DigitsText(s, 1, k) \o <<".">> \o DigitsText(s, k + 1, n)
  ELSE IF -6 < k /\ k <= 0 THEN <<"0", ".">> \o Zeros(-k) \o DigitsText(s, 1, n)
  ELSE DigitsText(s, 1, 1) \o (IF n = 1 THEN <<>> ELSE <<".">> \o DigitsText(s, 2, n))
         \o <<"e", IF k - 1 < 0 THEN "-" ELSE "+">>
         \o NaturalText(IF k - 1 < 0 THEN 1 - k ELSE k - 1)

ShortestText(x) == DecimalText(x.digits, Len(x.digits), x.p + Len(x.digits))

\* String(d) for a double d that is not negative.
DoubleText(d) ==
  IF d.inf THEN <<"I", "n", "f", "i", "n", "i", "t", "y">>
  ELSE IF d.m = <<>> THEN <<"0">>
  ELSE ShortestText(Stripped(Shortest(Stripped(Expansion(d.m, d.e)), 1, d)))

\* The first index of s that holds a character of set, or Len(s) + 1.
IndexOf(s, set) ==
  CHOOSE i \in 1 .. Len(s) + 1 :
    /\ i = Len(s) + 1 \/ s[i] \in set
    /\ \A j \in 1 .. i - 1 : s[j] \notin set

\* The natural the digit characters of s write.
BigOfText(s) == BigNormal([i \in 1 .. Len(s) |-> DigitValue(s[Len(s) - i + 1])])

\* The value of an exponent's digits, 999999 standing for any larger one.
RECURSIVE SmallValue(_, _)
SmallValue(s, acc) ==
  IF s = <<>> THEN acc
  ELSE IF acc > 99999 THEN 999999
  ELSE SmallValue(Tail(s), 10 * acc + DigitValue(Head(s)))

\* The exponent written as s: [+-]?[0-9]+, or nothing.
ExponentValue(s) ==
  IF s = <<>> THEN 0
  ELSE IF Head(s) = "-" THEN 0 - SmallValue(Tail(s), 0)
  ELSE IF Head(s) = "+" THEN SmallValue(Tail(s), 0)
  ELSE SmallValue(s, 0)

\* The double of the literal whose integer digits, fraction digits and
\* exponent are given.
LiteralDouble(integer, fraction, exponent) ==
  DecimalDouble(BigOfText(integer \o fraction), ExponentValue(exponent) - Len(fraction))

\* The parts of an unsigned literal: the exponent starts at index e (after
\* the "e"), the fraction at index f (after the ".").
LiteralParts(lit, f, e) ==
  LiteralDouble(SubSeq(lit, 1, (IF f <= e THEN f ELSE e) - 1),
                SubSeq(lit, f + 1, e - 1),
                SubSeq(lit, e + 1, Len(lit)))

UnsignedText(lit) ==
  DoubleText(LiteralParts(lit, IndexOf(lit, {"."}), IndexOf(lit, {"e", "E"})))

\* The Number a literal of the JSON grammar denotes, as String() writes it;
\* the negative zero is written "-0".
NumberText(lit) ==
  (IF Head(lit) = "-" THEN <<"-">> ELSE <<>>)
    \o UnsignedText(IF Head(lit) = "-" THEN Tail(lit) ELSE lit)

\* The string whose literal was read as r.
StringValue(r) ==
  IF r.ok THEN Parsed(Json("string", r.value, <<>>), r.end + 1) ELSE SyntaxError

\* The number whose literal is text[i .. e - 1].
NumberValue(text, i, e) ==
  IF e = 0 THEN SyntaxError
  ELSE Parsed(Json("number", NumberText(SubSeq(text, i, e - 1)), <<>>), e)

\* The value at index i that is neither an object nor an array: a string,
\* true, false, null or a number.
Scalar(text, i) ==
  IF text[i] = "\"" THEN StringValue(JsonString(text, i + 1, <<>>))
  ELSE IF HasWord(text, i, <<"t", "r", "u", "e">>)
  THEN Parsed(Json("true", <<>>, <<>>), i + 4)
  ELSE IF HasWord(text, i, <<"f", "a", "l", "s", "e">>)
  THEN Parsed(Json("false", <<>>, <<>>), i + 5)
  ELSE IF HasWord(text, i, <<"n", "u", "l", "l">>)
  THEN Parsed(JsonNull, i + 4)
  ELSE NumberValue(text, i, NumberEnd(text, i))

\* The colon at index c after the name of a member.
Colon(text, name, c) ==
  IF c <= Len(text) /\ text[c] = ":" THEN Parsed(name, c + 1) ELSE SyntaxError

\* The name of a member at index i and the colon after it: the name as a
\* string value, next the index after the colon.
MemberName(text, i) ==
  IF text[i] # "\"" THEN SyntaxError
  ELSE LET k == StringValue(JsonString(text, i + 1, <<>>)) IN
       IF k.ok THEN Colon(text, k.value, SkipWhitespace(text, k.next)) ELSE SyntaxError

\* An object or an array being read: its members or elements so far, and
\* the name of the member whose value is being read.
Frame(kind) == [kind |-> kind, items |-> <<>>, key |-> <<>>]

\* The value read goes into the innermost object or array: a later member
\* of a name takes the place of an earlier one.
AddToTop(stack, value) ==
  LET top == Head(stack)
  IN <<[top EXCEPT !.items = IF top.kind = "object"
                               THEN SetMember(top.items, top.key, value)
                               ELSE Append(top.items, value)]>> \o Tail(stack)

NamedTop(stack, key) == <<[Head(stack) EXCEPT !.key = key]>> \o Tail(stack)

\* The object or array that is complete.
Closed(frame) ==
  Json(frame.kind, <<>>,
       IF frame.kind = "object" THEN OwnProperties(frame.items) ELSE frame.items)

Closer(kind) == IF kind = "object" THEN "}" ELSE "]"

\* The parser at index i, whitespace skipped, inside the objects and arrays
\* of stack (innermost first).  mode says what is expected: a "value"; the
\* "first-element" of an array or its end; the "first-key" of an object or
\* its end; a "key"; "after" a value, a comma or the end of the innermost
\* object or array; "done", the value given is complete.
RECURSIVE JsonRead(_, _, _, _, _)
JsonRead(mode, text, i, stack, value) ==
  IF mode = "done"
  THEN IF stack = <<>> THEN Parsed(value, i)
       ELSE JsonRead("after", text, i, AddToTop(stack, value), JsonNull)
  ELSE IF i > Len(text) THEN SyntaxError
  ELSE IF mode = "after"
  THEN IF text[i] = ","
       THEN JsonRead(IF Head(stack).kind = "object" THEN "key" ELSE "value",
                     text, SkipWhitespace(text, i + 1), stack, JsonNull)
       ELSE IF text[i] = Closer(Head(stack).kind)
       THEN JsonRead("done", text, SkipWhitespace(text, i + 1), Tail(stack),
                     Closed(Head(stack)))
       ELSE SyntaxError
  ELSE IF (text[i] = "}" /\ mode = "first-key")
            \/ (text[i] = "]" /\ mode = "first-element")
  THEN JsonRead("done", text, SkipWhitespace(text, i + 1), Tail(stack),
                Closed(Head(stack)))
  ELSE IF mode \in {"key", "first-key"}
  THEN LET k == MemberName(text, i) IN
       IF k.ok
       THEN JsonRead("value", text, SkipWhitespace(text, k.next),
                     NamedTop(stack, k.value.text), JsonNull)
       ELSE SyntaxError
  ELSE IF text[i] = "{"
  THEN JsonRead("first-key", text, SkipWhitespace(text, i + 1),
                <<Frame("object")>> \o stack, JsonNull)
  ELSE IF text[i] = "["
  THEN JsonRead("first-element", text, SkipWhitespace(text, i + 1),
                <<Frame("array")>> \o stack, JsonNull)
  ELSE LET v == Scalar(text, i) IN
       IF v.ok THEN JsonRead("done", text, SkipWhitespace(text, v.next), stack, v.value)
       ELSE SyntaxError

\* The JSON value that starts at or after index i, and the index of what
\* follows it, whitespace skipped.
JsonValue(text, i) == JsonRead("value", text, SkipWhitespace(text, i), <<>>, JsonNull)

\* The text held one value and nothing after it, or the SyntaxError.
WholeText(text, r) ==
  IF r.ok /\ r.next > Len(text) THEN [ok |-> TRUE, value |-> r.value]
  ELSE [ok |-> FALSE, value |-> JsonNull]

\* JSON.parse(text): one value, whitespace around it, and nothing else.
JsonParse(text) == WholeText(text, JsonValue(text, 1))

(***************************************************************************)
(* HttpService.sendRequest: the values it handles.                         *)
(***************************************************************************)

\* A JavaScript value that should be a string and may be undefined.
Str(s) == [def |-> TRUE, s |-> s]
Undefined == [def |-> FALSE, s |-> <<>>]

\* A Param or a Header.
Entry(k, v, e) == [key |-> k, value |-> v, enabled |-> e]

\* An object used as a map from keys to texts (config.params, config.headers).
EmptyMap == [k \in {} |-> <<>>]

\* map[k] = v for a string v: nothing is set under "__proto__".
Put(map, k, v) ==
  IF k = "__proto__" THEN map
  ELSE [x \in DOMAIN map \cup {k} |-> IF x = k THEN v ELSE map[x]]

\* The payloads processBody returns.
NullPayload ==
  [kind |-> "null", text |-> <<>>, vars |-> JsonNull, entries |-> <<>>, json |-> JsonNull]
ParsedPayload(v) == [NullPayload EXCEPT !.kind = "parsed", !.json = v]
StringPayload(s) == [NullPayload EXCEPT !.kind = "string", !.text = s]
GraphqlPayload(q, v) == [NullPayload EXCEPT !.kind = "graphql", !.text = q, !.vars = v]
FormDataPayload(es) == [NullPayload EXCEPT !.kind = "formData", !.entries = es]
UndefinedPayload == [NullPayload EXCEPT !.kind = "undefined"]

\* A RequestBody: its type, and the members it has.  json is the member t of
\* the object it holds, variables a string as the GraphQL variables.
NoBody ==
  [type |-> "none", json |-> Undefined, raw |-> Undefined,
   hasGraphql |-> FALSE, query |-> <<>>, variables |-> Undefined,
   hasFormData |-> FALSE, formData |-> <<>>]

\* An Auth: its type, whether the member of its type is there, and the
\* members of that member.
NoAuth ==
  [type |-> "none", has |-> FALSE, token |-> Undefined, username |-> Undefined,
   password |-> Undefined, key |-> "", value |-> Undefined, addTo |-> "header"]

\* this.defaultTimeout
DefaultTimeout == 30000

\* The AxiosRequestConfig under construction: params, headers and data are
\* absent until set.
NoConfig ==
  [method |-> "GET", url |-> <<>>, timeout |-> 0,
   hasParams |-> FALSE, params |-> EmptyMap,
   hasHeaders |-> FALSE, headers |-> EmptyMap,
   hasData |-> FALSE, data |-> NullPayload]

Ok(c) == [threw |-> FALSE, config |-> c]
Threw == [threw |-> TRUE, config |-> NoConfig]

(***************************************************************************)
(* HttpService.sendRequest: building the config.                           *)
(***************************************************************************)

\* A mutant of EnabledOnly: the filter forgotten.
EnabledOrNot(list) == list

\* .filter((p) => p.enabled)
EnabledOnly(list) == SelectSeq(list, LAMBDA p : p.enabled)

\* .forEach((p) => { map[p.key] = this.processVariables(p.value, envVars) })
RECURSIVE AssignAll(_, _, _)
AssignAll(map, list, envVars) ==
  IF list = <<>> THEN map
  ELSE AssignAll(Put(map, Head(list).key, ProcessVariables(Head(list).value, envVars)),
                 Tail(list), envVars)

\* if (request.params.length > 0) config.params = {...}
WithParams(config, request, envVars) ==
  IF Len(request.params) > 0
  THEN [config EXCEPT !.hasParams = TRUE,
                      !.params = AssignAll(EmptyMap, EnabledOnly(request.params), envVars)]
  ELSE config

\* if (request.headers.length > 0) config.headers = {...}
WithHeaders(config, request, envVars) ==
  IF Len(request.headers) > 0
  THEN [config EXCEPT !.hasHeaders = TRUE,
                      !.headers = AssignAll(EmptyMap, EnabledOnly(request.headers), envVars)]
  ELSE config

BearerPrefix == <<"B", "e", "a", "r", "e", "r", " ">>

BasicPrefix == <<"B", "a", "s", "i", "c", " ">>

SetHeader(config, k, v) == [config EXCEPT !.headers = Put(config.headers, k, v)]

\* A mutant of ApiKeyApplied: the pair written to the headers wherever it
\* is to go.
ApiKeyAppliedToHeaders(c, key, value, addTo) ==
  IF addTo = "header" THEN SetHeader(c, key, value)
  ELSE [SetHeader(c, key, value) EXCEPT !.hasParams = TRUE,
                                        !.params = Put(c.params, key, value)]

\* The apikey case: config.headers[key] = value when addTo is "header",
\* else config.params[key] = value, params made when there are none.
ApiKeyApplied(c, key, value, addTo) ==
  IF addTo = "header" THEN SetHeader(c, key, value)
  ELSE [c EXCEPT !.hasParams = TRUE, !.params = Put(c.params, key, value)]

\* applyAuth(config, auth, envVars).  processVariables given undefined throws
\* a TypeError (undefined has no replace).
ApplyAuth(config, auth, envVars) ==
  LET c == [config EXCEPT !.hasHeaders = TRUE] IN
  CASE auth.type = "bearer" ->
         IF ~auth.has THEN Ok(c)
         ELSE IF ~auth.token.def THEN Threw
         ELSE Ok(SetHeader(c, "Authorization",
                           BearerPrefix \o ProcessVariables(auth.token.s, envVars)))
    [] auth.type = "basic" ->
         IF ~auth.has THEN Ok(c)
         ELSE IF ~auth.username.def \/ ~auth.password.def THEN Threw
         ELSE LET username == ProcessVariables(auth.username.s, envVars)
                  password == ProcessVariables(auth.password.s, envVars)
                  encoded == Base64(Bytes(username \o <<":">> \o password))
              IN Ok(SetHeader(c, "Authorization", BasicPrefix \o encoded))
    [] auth.type = "apikey" ->
         IF ~auth.has THEN Ok(c)
         ELSE IF ~auth.value.def THEN Threw
         ELSE Ok(ApiKeyApplied(c, auth.key, ProcessVariables(auth.value.s, envVars),
                               auth.addTo))
    [] auth.type = "jwt" ->
         IF ~auth.has THEN Ok(c)
         ELSE IF ~auth.token.def THEN Threw
         ELSE Ok(SetHeader(c, "Authorization",
                           BearerPrefix \o ProcessVariables(auth.token.s, envVars)))
    [] OTHER -> Ok(c)

\* formData[item.key] = processVariables(item.value) for each item: the
\* entries in the order of their first assignment.
RECURSIVE FormAssigned(_, _, _)
FormAssigned(acc, items, envVars) ==
  IF items = <<>> THEN acc
  ELSE FormAssigned(IF Head(items).key = ProtoKey THEN acc
                    ELSE SetMember(acc, Head(items).key,
                                   ProcessVariables(Head(items).value, envVars)),
                    Tail(items), envVars)

\* The formData object as URLSearchParams enumerates it.
FormObject(acc, items, envVars) == OwnProperties(FormAssigned(acc, items, envVars))

\* new URLSearchParams(object).toString()
RECURSIVE FormString(_)
FormString(pairs) ==
  IF pairs = <<>> THEN <<>>
  ELSE FormEncode(Head(pairs).key) \o <<"=">> \o FormEncode(Head(pairs).value)
         \o (IF Len(pairs) > 1 THEN <<"&">> ELSE <<>>) \o FormString(Tail(pairs))

Returned(p) == [threw |-> FALSE, payload |-> p]
BodyThrew == [threw |-> TRUE, payload |-> NullPayload]

\* processVariables(text, envVars, true): the parsed value, or the resolved
\* text when JSON.parse throws.
ProcessVariablesParsed(text, envVars) ==
  LET processed == ProcessVariables(text, envVars)
      parsed == JsonParse(processed)
  IN IF parsed.ok THEN ParsedPayload(parsed.value) ELSE StringPayload(processed)

\* body.graphql.variables || {}: the string, or the empty object for
\* undefined and for "".
GraphqlVariables(variables) ==
  IF variables.def /\ variables.s # <<>> THEN Json("string", variables.s, <<>>)
  ELSE Json("object", <<>>, <<>>)

\* processBody(body, envVars), for a body that is not null.
\* JSON.stringify(undefined) is undefined, which processVariables throws on.
ProcessBody(body, envVars) ==
  CASE body.type = "json" ->
         IF body.json.def
         THEN Returned(ProcessVariablesParsed(JsonStringify(body.json.s), envVars))
         ELSE BodyThrew
    [] body.type = "graphql" ->
         IF body.hasGraphql
         THEN Returned(GraphqlPayload(ProcessVariables(body.query, envVars),
                                      GraphqlVariables(body.variables)))
         ELSE Returned(NullPayload)
    [] body.type = "raw" ->
         Returned(StringPayload(ProcessVariables(
           IF body.raw.def /\ body.raw.s # <<>> THEN body.raw.s ELSE <<>>, envVars)))
    [] body.type = "x-www-form-urlencoded" ->
         Returned(StringPayload(FormString(
           IF body.hasFormData THEN FormObject(<<>>, body.formData, envVars)
           ELSE <<>>)))
    [] body.type = "form-data" ->
         IF body.hasFormData THEN Returned(FormDataPayload(body.formData))
         ELSE Returned(UndefinedPayload)
    [] OTHER -> Returned(NullPayload)

\* A mutant of BodyMethods: DELETE carries a body too.
BodyMethodsAndDelete == {"POST", "PUT", "PATCH", "DELETE"}

\* ["POST", "PUT", "PATCH"].includes(request.method)
BodyMethods == {"POST", "PUT", "PATCH"}

ApplicationJson == <<"a", "p", "p", "l", "i", "c", "a", "t", "i", "o", "n", "/", "j", "s", "o", "n">>

ApplicationForm ==   <<"a", "p", "p", "l", "i", "c", "a", "t", "i", "o", "n", "/", "x", "-",
    "w", "w", "w", "-", "f", "o", "r", "m", "-", "u", "r", "l", "e", "n",
    "c", "o", "d", "e", "d">>

\* !config.headers?.["Content-Type"]: no such key, or an empty value.
NoContentType(config) ==
  ~(config.hasHeaders /\ "Content-Type" \in DOMAIN config.headers
      /\ config.headers["Content-Type"] # <<>>)

\* The content type set when none is: { ...config.headers, "Content-Type": v }
WithContentType(config, body) ==
  IF ~NoContentType(config) THEN config
  ELSE IF body.type = "json" \/ body.type = "graphql"
  THEN [config EXCEPT !.hasHeaders = TRUE,
                      !.headers = Put(config.headers, "Content-Type", ApplicationJson)]
  ELSE IF body.type = "x-www-form-urlencoded"
  THEN [config EXCEPT !.hasHeaders = TRUE,
                      !.headers = Put(config.headers, "Content-Type", ApplicationForm)]
  ELSE config

\* if (request.body && [...].includes(request.method)) { config.data = ... }
WithBody(config, request, envVars) ==
  IF request.hasBody /\ request.method \in BodyMethods
  THEN LET b == ProcessBody(request.body, envVars)
       IN IF b.threw THEN Threw
          ELSE Ok(WithContentType([config EXCEPT !.hasData = TRUE, !.data = b.payload],
                                  request.body))
  ELSE Ok(config)

\* sendRequest taking its timeout from the stored config.
BaseConfigStoredTimeout(request, envVars) ==
  [NoConfig EXCEPT !.method = request.method,
                   !.url = ProcessVariables(request.url, envVars),
                   !.timeout = LoadConfig(configFile).defaultTimeout]

\* The config as sendRequest first makes it: method, resolved url, timeout.
BaseConfig(request, envVars) ==
  [NoConfig EXCEPT !.method = request.method,
                   !.url = ProcessVariables(request.url, envVars),
                   !.timeout = DefaultTimeout]

\* The config when the auth step is reached: params and headers added.
BeforeAuth(request, envVars) ==
  WithHeaders(WithParams(BaseConfig(request, envVars), request, envVars),
              request, envVars)

\* sendRequest up to the call of axios: the config, or a throw into the catch.
BuildConfig(request, envVars) ==
  LET c3 == BeforeAuth(request, envVars)
      a == IF request.hasAuth THEN ApplyAuth(c3, request.auth, envVars) ELSE Ok(c3)
  IN IF a.threw THEN Threw ELSE WithBody(a.config, request, envVars)

(***************************************************************************)
(* HttpService.sendRequest: the outcome.                                   *)
(***************************************************************************)

\* What sendRequest ends with: a Response returned, or an Error thrown.
NoOutcome == [kind |-> "none", status |-> 0, message |-> ""]
ResponseOf(status) == [kind |-> "response", status |-> status, message |-> ""]
ErrorOf(message) == [kind |-> "error", status |-> 0, message |-> message]

\* What the transport did: nothing yet, a response with a status, no
\* response to a request that was sent, or a failure before sending.
NoTransport == [kind |-> "none", status |-> 0]
Delivered(status) == [kind |-> "response", status |-> status]
NoResponse == [kind |-> "noResponse", status |-> 0]
SetupFailure == [kind |-> "setupFailure", status |-> 0]

\* What axios rejects with, or what the try block threw.
Failure(hasResponse, status, hasRequest) ==
  [hasResponse |-> hasResponse, status |-> status, hasRequest |-> hasRequest]

\* The catch block.
Caught(error) ==
  IF error.hasResponse THEN ResponseOf(error.status)
  ELSE IF error.hasRequest THEN ErrorOf("No response received")
  ELSE ErrorOf("Request failed")

\* validateStatus: () => true
ValidateStatus(status) == TRUE

\* A mutant of Settled: an error status ends in a throw.
SettledThrowing(status) ==
  IF status < 400 THEN ResponseOf(status) ELSE ErrorOf("Request failed")

\* axios settling a response that arrived: resolved when validateStatus
\* accepts the status, else rejected with the response on the error; then the
\* rest of the try block, or the catch block.
Settled(status) ==
  IF ValidateStatus(status) THEN ResponseOf(status)
  ELSE Caught(Failure(TRUE, status, TRUE))

(***************************************************************************)
(* The requests of the sendRequest specification.                          *)
(***************************************************************************)
Methods == {"GET", "POST", "PUT", "PATCH", "DELETE", "HEAD", "OPTIONS"}

PlaceholderA == <<"{", "{", "a", "}", "}">>

PlaceholderQ == <<"{", "{", "q", "}", "}">>

PlaceholderMissing == <<"{", "{", "b", "}", "}">>

TextPlain == <<"t", "e", "x", "t", "/", "p", "l", "a", "i", "n">>

\* The envVars of the sends: a plain value, and a value that is a quote.
SendVars == WithVar(WithVar(EmptyVars, <<"a">>, <<"v">>), <<"q">>, <<"\"">>)

ParamLists ==
  {<<>>,
   <<Entry("page", <<"1">>, TRUE)>>,
   <<Entry("page", <<"1">>, FALSE)>>,
   <<Entry("page", <<"1">>, FALSE), Entry("q", PlaceholderA, TRUE)>>,
   <<Entry("page", PlaceholderMissing, TRUE), Entry("page", <<"1">>, FALSE)>>}

HeaderLists ==
  {<<>>,
   <<Entry("Content-Type", TextPlain, TRUE)>>,
   <<Entry("content-type", TextPlain, TRUE)>>,
   <<Entry("Content-Type", TextPlain, FALSE)>>,
   <<Entry("Content-Type", <<>>, TRUE)>>,
   <<Entry("Accept", PlaceholderA, TRUE), Entry("Authorization", <<"x">>, FALSE)>>,
   <<Entry("Authorization", <<"x">>, TRUE)>>}

Auths ==
  {[NoAuth EXCEPT !.type = "bearer", !.has = TRUE, !.token = Str(PlaceholderA)],
   [NoAuth EXCEPT !.type = "bearer"],
   [NoAuth EXCEPT !.type = "bearer", !.has = TRUE],
   [NoAuth EXCEPT !.type = "basic", !.has = TRUE,
                  !.username = Str(<<"a", "d", "m", "i", "n">>),
                  !.password = Str(<<"s", "e", "c", "r", "e", "t">>)],
   [NoAuth EXCEPT !.type = "apikey", !.has = TRUE, !.key = "X-Api-Key",
                  !.value = Str(PlaceholderA), !.addTo = "header"],
   [NoAuth EXCEPT !.type = "apikey", !.has = TRUE, !.key = "page",
                  !.value = Str(<<"k">>), !.addTo = "query"],
   [NoAuth EXCEPT !.type = "apikey", !.has = TRUE, !.key = "Content-Type",
                  !.value = Str(<<>>), !.addTo = "header"],
   [NoAuth EXCEPT !.type = "jwt", !.has = TRUE, !.token = Str(<<"j">>)],
   [NoAuth EXCEPT !.type = "oauth2"]}

Bodies ==
  {[NoBody EXCEPT !.type = "json", !.json = Str(PlaceholderA)],
   [NoBody EXCEPT !.type = "json", !.json = Str(PlaceholderQ)],
   [NoBody EXCEPT !.type = "json", !.raw = Str(<<"{", "a">>)],
   [NoBody EXCEPT !.type = "graphql", !.hasGraphql = TRUE, !.query = PlaceholderA],
   [NoBody EXCEPT !.type = "graphql"],
   [NoBody EXCEPT !.type = "raw", !.raw = Str(PlaceholderA)],
   [NoBody EXCEPT !.type = "x-www-form-urlencoded", !.hasFormData = TRUE,
                  !.formData = <<[key |-> <<"k">>, value |-> PlaceholderA \o <<" ", "&">>]>>],
   [NoBody EXCEPT !.type = "form-data", !.hasFormData = TRUE,
                  !.formData = <<[key |-> <<"k">>, value |-> <<"x">>]>>]}

\* request.auth and request.body are null or an object.
Requests ==
  {[method |-> m, url |-> <<"u", "/">> \o PlaceholderA, params |-> ps, headers |-> hs,
    hasAuth |-> a.has, auth |-> a.auth, hasBody |-> b.has, body |-> b.body] :
     m \in Methods, ps \in ParamLists, hs \in HeaderLists,
     a \in {[has |-> FALSE, auth |-> NoAuth]} \cup {[has |-> TRUE, auth |-> x] : x \in Auths},
     b \in {[has |-> FALSE, body |-> NoBody]} \cup {[has |-> TRUE, body |-> x] : x \in Bodies}}

NoRequest ==
  [method |-> "GET", url |-> <<>>, params |-> <<>>, headers |-> <<>>,
   hasAuth |-> FALSE, auth |-> NoAuth, hasBody |-> FALSE, body |-> NoBody]

\* The method, params, headers, body and auth of a request as
\* handleNewRequest makes it, and of the RequestBuilder's state as its
\* constructor makes it for a null request.  The params and headers are
\* objects an input of the form assigns to in place: paramObjects and
\* headerObjects tell which object each one is.
NewFields ==
  [method |-> "GET", params |-> <<>>, headers |-> <<>>,
   paramObjects |-> <<>>, headerObjects |-> <<>>,
   hasAuth |-> FALSE, auth |-> NoAuth, hasBody |-> FALSE, body |-> NoBody]

\* App.state.selectedRequest: null, or a request: its id (`req_${Date.now()}`,
\* the reading it was made of), its url, its method, params, headers, body
\* and auth (fields), and which of the user's requests it is (0 for one that
\* was on disk, else the how-manieth the user made).
NullRequest == [isNull |-> TRUE, id |-> 0, url |-> <<>>, origin |-> 0, fields |-> NewFields]

RequestOf(id, u, origin) ==
  [isNull |-> FALSE, id |-> id, url |-> u, origin |-> origin, fields |-> NewFields]

\* A collection document with its requests.
WithRequests(doc, requests) == [doc EXCEPT !.requests = requests]

\* App.state.selectedCollection
NoSelection == [isNull |-> TRUE, id |-> 0]

Selected(id) == [isNull |-> FALSE, id |-> id]

\* The Request handed to sendRequest for a TUI request.
AsRequest(r) ==
  [method |-> r.fields.method, url |-> r.url,
   params |-> r.fields.params, headers |-> r.fields.headers,
   hasAuth |-> r.fields.hasAuth, auth |-> r.fields.auth,
   hasBody |-> r.fields.hasBody, body |-> r.fields.body]

\* The urls typed into the url input, the empty one included.
TypedUrls == {<<>>, <<"w">>}

\* The urls of the requests saved in the collections, one of them with a
\* placeholder.
SavedUrls == {<<"u">>, <<"w">>, <<"u", "/">> \o PlaceholderA}

\* The collections directory of a user who sends: two collections holding
\* the saved requests.
SendDir ==
  WriteFile(WriteFile(EmptyDir, JsonName(0),
                      Parseable(WithRequests(Doc(0, "A", 0, 0),
                                             <<RequestOf(0, <<"u">>, 0),
                                               RequestOf(1, <<"w">>, 0)>>))),
            JsonName(1),
            Parseable(WithRequests(Doc(1, "B", 1, 1),
                                   <<RequestOf(0, <<"u", "/">> \o PlaceholderA, 0)>>)))

\* The collections directory of a user who edits: empty as ensureDirectories
\* makes it, holding a collection with a request, or holding two collections
\* without requests yet.
EditDirs ==
  {EmptyDir,
   WriteFile(EmptyDir, JsonName(0),
             Parseable(WithRequests(Doc(0, "A", 0, 0), <<RequestOf(0, <<"u">>, 0)>>))),
   WriteFile(WriteFile(EmptyDir, JsonName(0), Parseable(Doc(0, "A", 0, 0))),
             JsonName(1), Parseable(Doc(1, "B", 1, 1)))}

\* The variables of the collection that owns the saved requests, merged with
\* those of the selected environment.
TuiVariables == SendVars

(***************************************************************************)
(* The CLI: what its commands read from the store and are started with.    *)
(***************************************************************************)

\* A collection file as the run command reads it: its requests (each a
\* request id and the Request sendRequest gets) and its variables.
CliCollection(i, requests, variables) ==
  [id |-> i, name |-> "A", createdAt |-> i, updatedAt |-> i,
   hasRequests |-> TRUE, requests |-> requests, variables |-> variables]

\* A JSON object that is no Collection: a Postman collection, which has its
\* requests under item and no member requests or variables.
PostmanCollection ==
  [CliCollection(0, <<>>, EmptyVars) EXCEPT !.hasRequests = FALSE]

\* An Environment: id, name, variables.
CliEnvironment(i, name, variables) ==
  [id |-> i, name |-> name, variables |-> variables]

\* A saved request.
CliRequest(id, method) ==
  [id |-> id,
   request |-> [NoRequest EXCEPT !.method = method,
                                 !.url = <<"u", "/">> \o PlaceholderA \o PlaceholderMissing]]

\* The id of a stored document as the text a command line gives.
IdText(i) == <<"0", "1", "2", "3", "4", "5">>[i + 1]

\* A saved request whose JSON body the editor kept as the text typed, {a,
\* which JSON.parse had thrown on.
CliRequestTyped(id, method) ==
  [CliRequest(id, method) EXCEPT
     !.request.hasBody = TRUE,
     !.request.body = [NoBody EXCEPT !.type = "json", !.raw = Str(<<"{", "a">>)]]

\* The collections directories the CLI meets: two collections, the request
\* "r1" in both; one collection next to a file that does not parse; none.
\* A collection file without requests gets there by import.
CliDirs ==
  LET c0 == CliCollection(0, <<CliRequest("r1", "GET")>>,
                          WithVar(WithVar(EmptyVars, <<"a">>, <<"C">>), <<"b">>, <<"D">>))
      c1 == CliCollection(1, <<CliRequestTyped("r2", "POST"), CliRequest("r1", "GET")>>,
                          WithVar(EmptyVars, <<"a">>, <<"K">>))
  IN {EmptyDir,
      WriteFile(EmptyDir, JsonName(0), Parseable(c0)),
      WriteFile(WriteFile(EmptyDir, JsonName(0), Parseable(c0)), JsonName(1), Parseable(c1)),
      WriteFile(WriteFile(EmptyDir, JsonName(0), Parseable(c0)), JsonName(1), Corrupt)}

\* The environments directories: "dev" and an environment named as the id of
\* "dev" is; "dev" next to a file that does not parse.
CliEnvDirs ==
  LET e0 == CliEnvironment(0, "dev", WithVar(WithVar(EmptyVars, <<"a">>, <<"E">>), <<"x">>, <<"F">>))
      e1 == CliEnvironment(1, "0", WithVar(EmptyVars, <<"b">>, <<"G">>))
  IN {WriteFile(WriteFile(EmptyDir, JsonName(0), Parseable(e0)), JsonName(1), Parseable(e1)),
      WriteFile(WriteFile(EmptyDir, JsonName(0), Parseable(e0)), JsonName(1), Corrupt)}

\* The files `import <file>` is pointed at: an export of a collection, a
\* Postman collection, a file that is not JSON.
CliSourceFiles ==
  {Parseable(CliCollection(0, <<CliRequest("r3", "GET")>>, EmptyVars)),
   Parseable(PostmanCollection), Corrupt}

\* The request ids given to run, and what --env is given.
CliRequestIds == {"r1", "r2", "zz"}

NoEnvOption == [given |-> FALSE, env |-> ""]

EnvOption(e) == [given |-> TRUE, env |-> e]

CliEnvOptions == {NoEnvOption} \cup {EnvOption(e) : e \in {"dev", "0", "1", "qa"}}

\* A command line.
NoCmd == [name |-> "none", id |-> "", option |-> NoEnvOption]

Cmd(name) == [NoCmd EXCEPT !.name = name]

\* What run handed on: the envVars it made, whether sendRequest was called
\* with them, and whether axios was called.
NotSent ==
  [called |-> FALSE, envVars |-> EmptyVars, axios |-> FALSE, transport |-> NoTransport]

\* A file outside the store.
NoFile == [exists |-> FALSE, content |-> Corrupt]

FileWith(content) == [exists |-> TRUE, content |-> content]

\* The statuses a server answers with.
Statuses == {200, 404, 500}

(***************************************************************************)
(* The record of the last call: which operation, whether it raised, what   *)
(* it returned, and what it was given.                                     *)
(***************************************************************************)
NoRet ==
  [op |-> "none", raised |-> FALSE, list |-> <<>>, doc |-> NoDoc,
   srcId |-> 0, overwrote |-> FALSE, before |-> 0,
   entry |-> 0, cap |-> 0, histBefore |-> <<>>, cfg |-> Config(0),
   srcValid |-> TRUE]

\* The documents of the valid collection files of a directory.
StoredDocs(dir) ==
  {dir[n].doc : n \in {m \in DOMAIN dir : EndsWithJson(m) /\ dir[m].valid}}

Names == {"A", "B"}

\* What a caller may hand to saveCollection: a document it loaded from the store.
Editable(dir) == StoredDocs(dir)

\* A collection with one request, and a folder listing these request ids.
Foldered(i, requestIds) ==
  [WithRequests(Doc(i, "A", i, i), <<RequestOf(0, <<"u">>, 0)>>)
     EXCEPT !.folders = <<Folder(0, requestIds)>>]

\* The files importCollection may be pointed at: exports of earlier
\* collections, a file written by hand whose folder lists a request the
\* collection lacks, and a file that is not JSON.
SourceFiles ==
  {Parseable(Doc(i, nm, i, i)) : i \in 0 .. (InitTime - 1), nm \in Names}
    \cup {Parseable(Foldered(0, <<0>>)), Parseable(Foldered(0, <<0, 1>>))}
    \cup {Corrupt}

(***************************************************************************)
(* The storage directory when the process starts: files written by earlier *)
(* runs (at readings before InitTime), some of them damaged, a config and  *)
(* a history as ensureDirectories leaves them.                             *)
(***************************************************************************)
InitialFiles(i) == {Corrupt, Parseable(Doc(i, "A", i, i))}

InitialDirs ==
  {EmptyDir}
    \cup {WriteFile(EmptyDir, JsonName(0), f) : f \in InitialFiles(0)}
    \cup {WriteFile(WriteFile(EmptyDir, JsonName(0), f), JsonName(1), g) :
            f \in InitialFiles(0), g \in InitialFiles(1)}
    \cup {WriteFile(WriteFile(EmptyDir, JsonName(0), f), OtherName(1), Corrupt) :
            f \in InitialFiles(0)}

InitialEnvDirs ==
  {WriteFile(WriteFile(EmptyDir, JsonName(0), Parseable(Doc(0, "A", 0, 0))),
             JsonName(1), g) : g \in InitialFiles(1)}

SendIdle ==
  /\ sReq = NoRequest
  /\ sVars = EmptyVars
  /\ sPc = "idle"
  /\ sConfig = NoConfig
  /\ sTransport = NoTransport
  /\ sOutcome = NoOutcome

ResolveIdle ==
  /\ rText = <<>>
  /\ rVars = EmptyVars
  /\ rOut = <<>>
  /\ rDone = FALSE

\* The CollectionBrowser as its constructor leaves it.
BrowserStarts ==
  /\ selectedIndex = 0
  /\ expandedCollections = {}
  /\ expandedFolders = {}

\* The App as its constructor leaves it, the RequestBuilder as its own does
\* for a null request.
TuiIdle ==
  /\ selectedRequest = NullRequest
  /\ loading = FALSE
  /\ response = "null"
  /\ builderUrl = <<>>
  /\ builder = NewFields
  /\ activeTab = "params"
  /\ edits = 0
  /\ inFlight = 0
  /\ axiosCalls = {}
  /\ latestInFlight = FALSE
  /\ rejected = FALSE
  /\ shown = "none"
  /\ collections = <<>>
  /\ selectedCollection = NoSelection
  /\ created = 0
  /\ aliases = {}
  /\ BrowserStarts

\* No CLI process yet, and nothing at the output path.
CliIdle ==
  /\ cliCmd = NoCmd
  /\ cliPc = "shell"
  /\ cliExit = 0
  /\ cliStderr = FALSE
  /\ cliRaised = FALSE
  /\ cliSent = NotSent
  /\ outFile = NoFile

UiIdle == TuiIdle /\ CliIdle

StoreIdle ==
  /\ now = InitTime
  /\ cdir = EmptyDir
  /\ edir = EmptyDir
  /\ configFile = ConfigFile(Config(DefaultMaxHistorySize))
  /\ history = HistoryFile(<<>>)
  /\ nextEntry = 0
  /\ ret = NoRet

StoreInit ==
  /\ ResolveIdle
  /\ SendIdle
  /\ UiIdle
  /\ now = InitTime
  /\ cdir \in InitialDirs
  /\ edir \in InitialEnvDirs
  /\ configFile = ConfigFile(Config(DefaultMaxHistorySize))
  /\ history = HistoryFile(<<>>)
  /\ nextEntry = 0
  /\ ret = NoRet

\* The history side of the store: a config whose maxHistorySize the model can
\* fill, and the empty history ensureDirectories writes.
HistoryInit ==
  /\ ResolveIdle
  /\ SendIdle
  /\ UiIdle
  /\ now = InitTime
  /\ cdir = EmptyDir
  /\ edir = EmptyDir
  /\ configFile \in {ConfigFile(Config(n)) : n \in 1 .. MaxCap}
                   \cup {Unusable(why) : why \in Failures}
  /\ history \in {HistoryFile(<<>>)} \cup {Unusable(why) : why \in Failures}
  /\ nextEntry = 0
  /\ ret = NoRet

(***************************************************************************)
(* The calls.                                                              *)
(***************************************************************************)

\* Time passes between two calls.
Tick ==
  /\ now < MaxTime
  /\ now' = now + 1
  /\ UNCHANGED <<cdir, edir, configFile, history, nextEntry, ret, resolveVars, sendVars, uiVars>>

LoadCollectionsCall ==
  /\ ret' = [NoRet EXCEPT !.op = "loadCollections",
                          !.list = LoadCollections(cdir)]
  /\ UNCHANGED <<now, cdir, edir, configFile, history, nextEntry, resolveVars, sendVars, uiVars>>

LoadEnvironmentsCall ==
  /\ ret' = [NoRet EXCEPT !.op = "loadEnvironments",
                          !.list = LoadEnvironments(edir)]
  /\ UNCHANGED <<now, cdir, edir, configFile, history, nextEntry, resolveVars, sendVars, uiVars>>

SaveCollectionCall ==
  \E c \in Editable(cdir), t \in Readings(now) :
    /\ now' = t
    /\ cdir' = SaveCollection(cdir, c, t)
    /\ ret' = [NoRet EXCEPT !.op = "saveCollection", !.doc = Stamp(c, t),
                            !.before = c.updatedAt,
                            !.overwrote = JsonName(c.id) \in DOMAIN cdir]
    /\ UNCHANGED <<edir, configFile, history, nextEntry, resolveVars, sendVars, uiVars>>

DeleteCollectionCall ==
  \E i \in 0 .. MaxTime :
    /\ cdir' = DeleteCollection(cdir, i)
    /\ ret' = [NoRet EXCEPT !.op = "deleteCollection", !.srcId = i]
    /\ UNCHANGED <<now, edir, configFile, history, nextEntry, resolveVars, sendVars, uiVars>>

\* importCollection(sourcePath): JSON.parse throwing is rethrown; otherwise
\* the document gets its new identity and is saved.
ImportCollectionCall ==
  \E src \in SourceFiles :
    \E t1 \in Readings(now) : \E t2 \in Readings(t1) :
    \E t3 \in Readings(t2) : \E t4 \in Readings(t3) :
      LET x == ImportCollection(cdir, src, t1, t2, t3, t4) IN
      /\ now' = IF x.raised THEN now ELSE t4
      /\ cdir' = x.dir
      /\ ret' = IF x.raised
                THEN [NoRet EXCEPT !.op = "importCollection", !.raised = TRUE,
                                   !.srcValid = src.valid]
                ELSE [NoRet EXCEPT !.op = "importCollection",
                                   !.doc = Stamp(x.doc, t4),
                                   !.srcId = src.doc.id,
                                   !.before = x.doc.updatedAt,
                                   !.overwrote = JsonName(x.doc.id) \in DOMAIN cdir,
                                   !.srcValid = src.valid]
      /\ UNCHANGED <<edir, configFile, history, nextEntry, resolveVars, sendVars, uiVars>>

SaveConfigCall ==
  \E n \in 1 .. MaxCap :
    /\ configFile' = SaveConfig(configFile, Config(n)).file
    /\ ret' = [NoRet EXCEPT !.op = "saveConfig", !.cap = n,
                            !.raised = SaveConfig(configFile, Config(n)).raised]
    /\ UNCHANGED <<now, cdir, edir, history, nextEntry, resolveVars, sendVars, uiVars>>

\* addToHistory(entry): entries are numbered in the order they are added.
AddToHistoryCall ==
  /\ nextEntry < MaxEntries
  /\ LET entry == nextEntry + 1
         list == LoadHistory(history)
         cfg == LoadConfig(configFile)
     IN /\ history' = AddToHistory(history, entry, cfg)
        /\ nextEntry' = entry
        /\ ret' = [NoRet EXCEPT !.op = "addToHistory", !.entry = entry,
                                !.cap = cfg.maxHistorySize,
                                !.histBefore = list]
  /\ UNCHANGED <<now, cdir, edir, configFile, resolveVars, sendVars, uiVars>>

ClearHistoryCall ==
  /\ history' = ClearHistory(history).file
  /\ ret' = [NoRet EXCEPT !.op = "clearHistory",
                          !.raised = ClearHistory(history).raised]
  /\ UNCHANGED <<now, cdir, edir, configFile, nextEntry, resolveVars, sendVars, uiVars>>

LoadConfigCall ==
  /\ ret' = [NoRet EXCEPT !.op = "loadConfig", !.cfg = LoadConfig(configFile)]
  /\ UNCHANGED <<now, cdir, edir, configFile, history, nextEntry, resolveVars, sendVars, uiVars>>

LoadHistoryCall ==
  /\ ret' = [NoRet EXCEPT !.op = "loadHistory",
                          !.list = LoadHistory(history)]
  /\ UNCHANGED <<now, cdir, edir, configFile, history, nextEntry, resolveVars, sendVars, uiVars>>

\* What a caller may hand to saveEnvironment.
EnvironmentInputs == {Doc(i, nm, i, i) : i \in InitialStems, nm \in Names}

SaveEnvironmentCall ==
  \E e \in EnvironmentInputs :
    /\ edir' = SaveEnvironment(edir, e)
    /\ ret' = [NoRet EXCEPT !.op = "saveEnvironment", !.doc = e]
    /\ UNCHANGED <<now, cdir, configFile, history, nextEntry, resolveVars, sendVars, uiVars>>

DeleteEnvironmentCall ==
  \E i \in InitialStems :
    /\ edir' = DeleteEnvironment(edir, i)
    /\ ret' = [NoRet EXCEPT !.op = "deleteEnvironment", !.srcId = i]
    /\ UNCHANGED <<now, cdir, configFile, history, nextEntry, resolveVars, sendVars, uiVars>>

\* exportCollection(collectionId, outputPath), logging and rethrowing what it
\* throws.
ExportCollectionCall ==
  \E i \in 0 .. MaxTime :
    LET x == ExportCollection(cdir, i, outFile) IN
    /\ outFile' = x.out
    /\ ret' = [NoRet EXCEPT !.op = "exportCollection", !.srcId = i, !.raised = x.raised]
    /\ UNCHANGED <<now, cdir, edir, configFile, history, nextEntry>>
    /\ UNCHANGED <<resolveVars, sendVars, tuiVars, browserVars>>
    /\ UNCHANGED <<cliCmd, cliPc, cliExit, cliStderr, cliRaised, cliSent>>

\* The store before a sequence of calls that a caller may repeat: one
\* collection, alone or next to a file that does not parse, and a history
\* with an entry.
RetryInit ==
  /\ ResolveIdle
  /\ SendIdle
  /\ UiIdle
  /\ now = InitTime
  /\ cdir \in {WriteFile(EmptyDir, JsonName(0), Parseable(Doc(0, "A", 0, 0))),
               WriteFile(WriteFile(EmptyDir, JsonName(0), Parseable(Doc(0, "A", 0, 0))),
                         JsonName(1), Corrupt)}
  /\ edir = WriteFile(EmptyDir, JsonName(0), Parseable(Doc(0, "A", 0, 0)))
  /\ configFile = ConfigFile(Config(DefaultMaxHistorySize))
  /\ history = HistoryFile(<<1>>)
  /\ nextEntry = 1
  /\ ret = NoRet

\* The operations a caller may retry.
RetryNext ==
  \/ Tick
  \/ SaveCollectionCall
  \/ DeleteCollectionCall
  \/ SaveEnvironmentCall
  \/ DeleteEnvironmentCall
  \/ SaveConfigCall
  \/ ClearHistoryCall
  \/ ExportCollectionCall

\* The store of a first start: no collection yet.
MapInit ==
  /\ ResolveIdle
  /\ SendIdle
  /\ UiIdle
  /\ now = InitTime
  /\ cdir = EmptyDir
  /\ edir = WriteFile(EmptyDir, JsonName(0), Parseable(Doc(0, "A", 0, 0)))
  /\ configFile = ConfigFile(Config(DefaultMaxHistorySize))
  /\ history = HistoryFile(<<1>>)
  /\ nextEntry = 1
  /\ ret = NoRet

\* The operations on collections.
MapNext ==
  \/ Tick
  \/ LoadCollectionsCall
  \/ SaveCollectionCall
  \/ DeleteCollectionCall
  \/ ImportCollectionCall

StoreNext ==
  \/ Tick
  \/ LoadCollectionsCall
  \/ LoadEnvironmentsCall
  \/ SaveCollectionCall
  \/ DeleteCollectionCall
  \/ ImportCollectionCall

HistoryNext ==
  \/ SaveConfigCall
  \/ AddToHistoryCall
  \/ ClearHistoryCall
  \/ LoadConfigCall
  \/ LoadHistoryCall

(***************************************************************************)
(* processVariables as a call: any text, any envVars.                      *)
(***************************************************************************)
ResolveInit ==
  /\ StoreIdle
  /\ SendIdle
  /\ UiIdle
  /\ rText \in TextsOf(MaxSegs)
  /\ rVars \in VarMaps
  /\ rOut = <<>>
  /\ rDone = FALSE

ProcessVariablesCall ==
  /\ ~rDone
  /\ rOut' = ProcessVariables(rText, rVars)
  /\ rDone' = TRUE
  /\ UNCHANGED <<rText, rVars, storeVars, sendVars, uiVars>>

ResolveNext == ProcessVariablesCall

(***************************************************************************)
(* sendRequest as a call: the build up to the await of axios, then what    *)
(* the transport does.                                                     *)
(***************************************************************************)
\* The defaultTimeout a stored config may hold: the default, or twice that.
StoredTimeouts == {DefaultConfigTimeout, 2 * DefaultConfigTimeout}

\* Requests without params and headers.
PlainRequests == {r \in Requests : r.params = <<>> /\ r.headers = <<>>}

\* A sendRequest call about to be made, whatever config.json holds.
SendFairInit ==
  /\ now = InitTime
  /\ cdir = EmptyDir
  /\ edir = EmptyDir
  /\ configFile \in {ConfigFile(ConfigWith(DefaultMaxHistorySize, t)) : t \in StoredTimeouts}
  /\ history = HistoryFile(<<>>)
  /\ nextEntry = 0
  /\ ret = NoRet
  /\ ResolveIdle
  /\ UiIdle
  /\ sReq \in PlainRequests
  /\ sVars = SendVars
  /\ sPc = "idle"
  /\ sConfig = NoConfig
  /\ sTransport = NoTransport
  /\ sOutcome = NoOutcome

SendInit ==
  /\ StoreIdle
  /\ ResolveIdle
  /\ UiIdle
  /\ sReq \in Requests
  /\ sVars = SendVars
  /\ sPc = "idle"
  /\ sConfig = NoConfig
  /\ sTransport = NoTransport
  /\ sOutcome = NoOutcome

\* sendRequest(request, envVars) until axios(config) is awaited; a throw in
\* the try block has neither response nor request on it.
SendRequestCall ==
  /\ sPc = "idle"
  /\ LET b == BuildConfig(sReq, sVars) IN
     IF b.threw
     THEN /\ sPc' = "raised"
          /\ sOutcome' = Caught(Failure(FALSE, 0, FALSE))
          /\ UNCHANGED sConfig
     ELSE /\ sPc' = "inflight"
          /\ sConfig' = b.config
          /\ UNCHANGED sOutcome
  /\ UNCHANGED <<sReq, sVars, sTransport, storeVars, resolveVars, uiVars>>

\* A response arrives, whatever its status.
TransportResponds ==
  \E status \in Statuses :
    /\ sPc = "inflight"
    /\ sTransport' = Delivered(status)
    /\ sOutcome' = Settled(status)
    /\ sPc' = IF sOutcome'.kind = "response" THEN "returned" ELSE "raised"
    /\ UNCHANGED <<sReq, sVars, sConfig, storeVars, resolveVars, uiVars>>

\* The request was sent and no response came: DNS, connection, timeout.
TransportNoResponse ==
  /\ sPc = "inflight"
  /\ sTransport' = NoResponse
  /\ sOutcome' = Caught(Failure(FALSE, 0, TRUE))
  /\ sPc' = "raised"
  /\ UNCHANGED <<sReq, sVars, sConfig, storeVars, resolveVars, uiVars>>

\* axios fails before it sends.
TransportSetupFails ==
  /\ sPc = "inflight"
  /\ sTransport' = SetupFailure
  /\ sOutcome' = Caught(Failure(FALSE, 0, FALSE))
  /\ sPc' = "raised"
  /\ UNCHANGED <<sReq, sVars, sConfig, storeVars, resolveVars, uiVars>>

SendNext ==
  \/ SendRequestCall
  \/ TransportResponds
  \/ TransportNoResponse
  \/ TransportSetupFails

(***************************************************************************)
(* The TUI: the App and its RequestBuilder.  A send of the App is a call   *)
(* of sendRequest that awaits axios until the transport settles it.        *)
(***************************************************************************)
\* The places that hold a request object: App.state.selectedRequest, and the
\* i-th request of the c-th collection the App holds.  Two places are aliases
\* when they hold one object (===) and not two objects alike.
SelectedPlace == <<0, 0>>
Slot(c, i) == <<c, i>>

\* a === b for the objects at two places
SameObject(al, a, b) == a = b \/ \E B \in al : a \in B /\ b \in B

\* The place now holds an object made anew (an object literal, a spread).
Detached(al, x) == {B \ {x} : B \in {A \in al : Cardinality(A \ {x}) >= 2}}

\* The place x now holds the object at the place y.
Attached(al, x, y) ==
  LET d == Detached(al, x) IN
  IF x = y THEN al
  ELSE IF \E B \in d : y \in B
  THEN {IF y \in B THEN B \cup {x} ELSE B : B \in d}
  ELSE d \cup {{x, y}}

\* RequestBuilder.componentDidUpdate(prevProps) once the App selected the
\* object at a place: the request is copied into the builder's state when
\* it is not the object that was selected before.
UrlAfterSelecting(place, request) ==
  IF ~selectedRequest.isNull /\ SameObject(aliases, SelectedPlace, place)
  THEN builderUrl
  ELSE request.url

FieldsAfterSelecting(place, request) ==
  IF ~selectedRequest.isNull /\ SameObject(aliases, SelectedPlace, place)
  THEN builder
  ELSE request.fields

\* The App as its constructor leaves it over the collections directory, the
\* RequestBuilder as its own does for a null request.
AppStarts ==
  /\ collections = LoadCollections(cdir)
  /\ selectedCollection =
       IF collections = <<>> THEN NoSelection ELSE Selected(collections[1].id)
  /\ selectedRequest = NullRequest
  /\ loading = FALSE
  /\ response = "null"
  /\ builderUrl = <<>>
  /\ builder = NewFields
  /\ activeTab = "params"
  /\ edits = 0
  /\ inFlight = 0
  /\ axiosCalls = {}
  /\ latestInFlight = FALSE
  /\ rejected = FALSE
  /\ shown = "none"
  /\ created = 0
  /\ aliases = {}
  /\ BrowserStarts

TuiInit ==
  /\ now = InitTime
  /\ cdir = SendDir
  /\ edir = EmptyDir
  /\ configFile = ConfigFile(Config(DefaultMaxHistorySize))
  /\ history = HistoryFile(<<>>)
  /\ nextEntry = 0
  /\ ret = NoRet
  /\ ResolveIdle
  /\ SendIdle
  /\ AppStarts
  /\ CliIdle

\* App.handleSendRequest up to its await, when sendRequest(request) has built
\* b: loading is set and the response cleared, and axios is called with the
\* config.  When building threw, the promise of sendRequest is rejected and
\* the handler returns all the same; the catch block runs when the await
\* resumes.
SendBegun(b) ==
  /\ ~rejected
  /\ inFlight < MaxInFlight
  /\ loading' = TRUE
  /\ response' = "null"
  /\ shown' = "none"
  /\ rejected' = b.threw
  /\ latestInFlight' = ~b.threw
  /\ inFlight' = IF b.threw THEN inFlight ELSE inFlight + 1
  /\ axiosCalls' = IF b.threw THEN axiosCalls ELSE {b.config}

\* App.handleSendRequest(request) up to its await
HandleSendRequest(r) == SendBegun(BuildConfig(AsRequest(r), EmptyVars))

\* The await of App.handleSendRequest resumes on a promise that building
\* rejected: the catch block stores the error response and clears loading.
\* The continuation of an await on a rejected promise is a microtask: it runs
\* once the handler has returned and before the next event is handled, so
\* every handler of the TUI has the guard ~rejected.
SendRejected ==
  /\ rejected
  /\ rejected' = FALSE
  /\ loading' = FALSE
  /\ response' = "error"
  /\ shown' = "latest"
  /\ UNCHANGED <<selectedRequest, builderUrl, formVars, inFlight, axiosCalls,
                 latestInFlight>>
  /\ UNCHANGED <<storeVars, resolveVars, sendVars, cliVars, browserVars, editVars>>

\* The request getCurrentRequest() builds at clock reading t when the url of
\* the RequestBuilder's state is u and its other fields are f: the id of the
\* request prop, or a new one.
CurrentRequest(t, u, f) ==
  IF selectedRequest.isNull
  THEN [RequestOf(t, u, created + 1) EXCEPT !.fields = f]
  ELSE [RequestOf(selectedRequest.id, u, selectedRequest.origin) EXCEPT !.fields = f]

\* RequestBuilder.getCurrentRequest()
GetCurrentRequest(t) == CurrentRequest(t, builderUrl, builder)

\* RequestBuilder.handleSend(): nothing for an empty url, else
\* onSend(getCurrentRequest()).
HandleSend ==
  /\ builderUrl # <<>>
  /\ HandleSendRequest(GetCurrentRequest(now))
  /\ UNCHANGED <<selectedRequest, builderUrl, formVars>>

\* Ctrl+Enter as the RequestBuilder hears it.
BuilderCtrlEnter ==
  /\ HandleSend
  /\ UNCHANGED <<storeVars, resolveVars, sendVars, cliVars, browserVars, editVars>>

\* The Send button: disabled={!hasUrl || loading}.
ClickSend ==
  /\ builderUrl # <<>>
  /\ ~loading
  /\ HandleSend
  /\ UNCHANGED <<storeVars, resolveVars, sendVars, cliVars, browserVars, editVars>>

\* Ctrl+Enter as the App hears it: the selected request is sent.
AppCtrlEnter ==
  /\ ~selectedRequest.isNull
  /\ HandleSendRequest(selectedRequest)
  /\ UNCHANGED <<selectedRequest, builderUrl, formVars>>
  /\ UNCHANGED <<storeVars, resolveVars, sendVars, cliVars, browserVars, editVars>>

\* Ctrl+N, App.handleNewRequest(): a request with a new id and the url "" is
\* selected, and componentDidUpdate copies it into the RequestBuilder.
HandleNewRequest ==
  \E t \in Readings(now) :
    /\ created < MaxNew
    /\ now' = t
    /\ created' = created + 1
    /\ selectedRequest' = RequestOf(t, <<>>, created + 1)
    /\ builderUrl' = <<>>
    /\ builder' = NewFields
    /\ UNCHANGED <<activeTab, edits>>
    /\ aliases' = Detached(aliases, SelectedPlace)
    /\ ~rejected
    /\ UNCHANGED <<loading, response, inFlight, axiosCalls, latestInFlight, rejected, shown,
                   collections, selectedCollection>>
    /\ UNCHANGED <<diskVars, resolveVars, sendVars, cliVars, browserVars>>

\* App.handleSelectRequest(request), from the CollectionBrowser: a request of
\* any of the collections.
HandleSelectRequest ==
  \E c \in 1 .. Len(collections) : \E i \in 1 .. Len(collections[c].requests) :
    /\ selectedRequest' = collections[c].requests[i]
    /\ response' = "null"
    /\ builderUrl' = UrlAfterSelecting(Slot(c, i), collections[c].requests[i])
    /\ builder' = FieldsAfterSelecting(Slot(c, i), collections[c].requests[i])
    /\ UNCHANGED <<activeTab, edits>>
    /\ aliases' = Attached(aliases, SelectedPlace, Slot(c, i))
    /\ shown' = "none"
    /\ ~rejected
    /\ UNCHANGED <<loading, inFlight, axiosCalls, latestInFlight, rejected>>
    /\ UNCHANGED <<collections, selectedCollection, created>>
    /\ UNCHANGED <<storeVars, resolveVars, sendVars, cliVars, browserVars>>

\* App.handleSelectCollection(collectionId), from the CollectionBrowser.
HandleSelectCollection ==
  \E c \in 1 .. Len(collections) :
    /\ selectedCollection' = Selected(collections[c].id)
    /\ ~rejected
    /\ UNCHANGED <<selectedRequest, loading, response, builderUrl, formVars, inFlight, axiosCalls,
                   latestInFlight, rejected, shown,
                   collections, created, aliases>>
    /\ UNCHANGED <<storeVars, resolveVars, sendVars, cliVars, browserVars>>

\* RequestBuilder.handleUrlChange(val): setState({ url }) and notifyChange(),
\* whose request the App selects.  The input is disabled while loading.
\* getCurrentRequest() reads the url before or after setState took effect,
\* and componentDidUpdate copies the selected request's url back.
HandleUrlChange ==
  \E val \in TypedUrls : \E seen \in {builderUrl, val} : \E kept \in {val, seen} :
  \E t \in Readings(now) :
    /\ ~loading
    /\ selectedRequest.isNull => created < MaxNew
    /\ selectedRequest' = CurrentRequest(t, seen, builder)
    /\ builderUrl' = kept
    /\ UNCHANGED formVars
    /\ now' = IF selectedRequest.isNull THEN t ELSE now
    /\ created' = IF selectedRequest.isNull THEN created + 1 ELSE created
    /\ aliases' = Detached(aliases, SelectedPlace)
    /\ ~rejected
    /\ UNCHANGED <<loading, response, inFlight, axiosCalls, latestInFlight, rejected, shown,
                   collections, selectedCollection>>
    /\ UNCHANGED <<diskVars, resolveVars, sendVars, cliVars, browserVars>>

\* The Clear button of the RequestBuilder: its own state only, and of it
\* the url, params, headers and body.
ClickClear ==
  /\ builderUrl' = <<>>
  /\ builder' = [builder EXCEPT !.params = <<>>, !.headers = <<>>,
                                !.paramObjects = <<>>, !.headerObjects = <<>>,
                                !.hasBody = FALSE, !.body = NoBody]
  /\ UNCHANGED <<activeTab, edits>>
  /\ ~rejected
  /\ UNCHANGED <<selectedRequest, loading, response, inFlight, axiosCalls,
                 latestInFlight, rejected, shown>>
  /\ UNCHANGED <<storeVars, resolveVars, sendVars, cliVars, browserVars, editVars>>

\* The await of a send ends, with a Response or in the catch block: the
\* response is set and loading is cleared.
SendSettles ==
  \E outcome \in {"response", "error"} : \E isLatest \in BOOLEAN :
    /\ inFlight > 0
    /\ IF isLatest THEN latestInFlight ELSE inFlight > (IF latestInFlight THEN 1 ELSE 0)
    /\ inFlight' = inFlight - 1
    /\ loading' = FALSE
    /\ response' = outcome
    /\ latestInFlight' = (latestInFlight /\ ~isLatest)
    /\ shown' = IF isLatest THEN "latest" ELSE "older"
    /\ ~rejected
    /\ UNCHANGED <<selectedRequest, builderUrl, formVars, axiosCalls, rejected>>
    /\ UNCHANGED <<storeVars, resolveVars, sendVars, cliVars, browserVars, editVars>>

(***************************************************************************)
(* The RequestBuilder's form: the method Select, the tabs, Ctrl+K, the     *)
(* type Selects of the Auth and Body tabs and the JSON body input.  Each   *)
(* calls setState on the RequestBuilder; only the method Select goes on to *)
(* notifyChange().  The types chosen in the Selects are those named below; *)
(* of the inputs of the auth members the bearer token's is modelled, of    *)
(* the body inputs the JSON and the raw one.                               *)
(***************************************************************************)
\* The methods chosen in the method Select.
ChosenMethods == {"GET", "POST"}

\* RequestBuilder.handleMethodChange(method): setState({ method }) and
\* notifyChange(), whose request the App selects.  The Select is disabled
\* while loading.  As in handleUrlChange, getCurrentRequest() reads the
\* method before or after setState took effect, and componentDidUpdate
\* copies the selected request's method back.
HandleMethodChange ==
  \E method \in ChosenMethods : \E seen \in {builder.method, method} :
  \E kept \in {method, seen} : \E t \in Readings(now) :
    /\ ~loading
    /\ edits < MaxEdits
    /\ selectedRequest.isNull => created < MaxNew
    /\ selectedRequest' =
         CurrentRequest(t, builderUrl, [builder EXCEPT !.method = seen])
    /\ builder' = [builder EXCEPT !.method = kept]
    /\ edits' = edits + 1
    /\ now' = IF selectedRequest.isNull THEN t ELSE now
    /\ created' = IF selectedRequest.isNull THEN created + 1 ELSE created
    /\ aliases' = Detached(aliases, SelectedPlace)
    /\ ~rejected
    /\ UNCHANGED <<loading, response, builderUrl, activeTab, inFlight, axiosCalls,
                   latestInFlight, rejected, shown, collections, selectedCollection>>
    /\ UNCHANGED <<diskVars, resolveVars, sendVars, cliVars, browserVars>>

TabTypes == {"params", "auth", "headers", "body", "tests"}

\* Alt+1 .. Alt+5 as the App and the RequestBuilder hear them, and the Tabs
\* of the RequestBuilder: setState({ activeTab }) of the App.
SwitchTab ==
  \E tab \in TabTypes :
    /\ edits < MaxEdits
    /\ activeTab' = tab
    /\ edits' = edits + 1
    /\ ~rejected
    /\ UNCHANGED <<selectedRequest, loading, response, builderUrl, builder, inFlight,
                   axiosCalls, latestInFlight, rejected, shown, editVars>>
    /\ UNCHANGED <<storeVars, resolveVars, sendVars, cliVars, browserVars>>

\* { key: '', value: '', enabled: true }
EmptyItem == Entry("", <<>>, TRUE)

\* The fields with an item made anew at the end of the params or of the
\* headers, in an array made anew.  The item made by the n-th change of the
\* form is the object n.
WithParam(f, item, object) ==
  [f EXCEPT !.params = Append(@, item), !.paramObjects = Append(@, object)]

WithHeader(f, item, object) ==
  [f EXCEPT !.headers = Append(@, item), !.headerObjects = Append(@, object)]

\* Ctrl+K, RequestBuilder.handleAddItem(): an empty param on the Params tab,
\* an empty header on the Headers tab, nothing on another tab.
HandleAddItem ==
  /\ edits < MaxEdits
  /\ edits' = edits + 1
  /\ builder' =
       IF activeTab = "params" THEN WithParam(builder, EmptyItem, edits + 1)
       ELSE IF activeTab = "headers" THEN WithHeader(builder, EmptyItem, edits + 1)
       ELSE builder
  /\ ~rejected
  /\ UNCHANGED <<selectedRequest, loading, response, builderUrl, activeTab, inFlight,
                 axiosCalls, latestInFlight, rejected, shown, editVars>>
  /\ UNCHANGED <<storeVars, resolveVars, sendVars, cliVars, browserVars>>

\* The quick-add buttons of the Headers tab.
CommonHeaders ==
  {Entry("Content-Type", ApplicationJson, TRUE),
   Entry("Accept", ApplicationJson, TRUE)}

\* RequestBuilder.addCommonHeader(key, value), from the buttons of the
\* Headers tab.
AddCommonHeader ==
  \E item \in CommonHeaders :
    /\ activeTab = "headers"
    /\ edits < MaxEdits
    /\ edits' = edits + 1
    /\ builder' = WithHeader(builder, item, edits + 1)
    /\ ~rejected
    /\ UNCHANGED <<selectedRequest, loading, response, builderUrl, activeTab, inFlight,
                   axiosCalls, latestInFlight, rejected, shown, editVars>>
    /\ UNCHANGED <<storeVars, resolveVars, sendVars, cliVars, browserVars>>

\* The key and the value typed into the inputs of an item.
TypedKey == "k"

TypedValue == <<"v">>

ItemMembers == {"key", "value"}

\* The item after newItems[index].key = val or newItems[index].value = val.
Typed(item, member) ==
  IF member = "key" THEN [item EXCEPT !.key = TypedKey]
  ELSE [item EXCEPT !.value = TypedValue]

\* The items of an array once the object among them has become the item.
WithObject(items, objects, object, item) ==
  [i \in 1 .. Len(items) |-> IF objects[i] = object THEN item ELSE items[i]]

\* The key and value inputs of the index-th param, which are there on the
\* Params tab: the item is assigned to in place and the state gets a copy of
\* the array.  The selected request sees the assignment where its params
\* hold the same item, as they do once notifyChange() handed them on.
ParamInput ==
  \E index \in 1 .. Len(builder.params) : \E member \in ItemMembers :
    /\ activeTab = "params"
    /\ edits < MaxEdits
    /\ edits' = edits + 1
    /\ builder' =
         [builder EXCEPT !.params[index] = Typed(builder.params[index], member)]
    /\ selectedRequest' =
         IF selectedRequest.isNull THEN selectedRequest
         ELSE [selectedRequest EXCEPT !.fields.params =
                 WithObject(@, selectedRequest.fields.paramObjects,
                            builder.paramObjects[index],
                            Typed(builder.params[index], member))]
    /\ ~rejected
    /\ UNCHANGED <<loading, response, builderUrl, activeTab, inFlight,
                   axiosCalls, latestInFlight, rejected, shown, editVars>>
    /\ UNCHANGED <<storeVars, resolveVars, sendVars, cliVars, browserVars>>

\* The key and value inputs of the index-th header, on the Headers tab.
HeaderInput ==
  \E index \in 1 .. Len(builder.headers) : \E member \in ItemMembers :
    /\ activeTab = "headers"
    /\ edits < MaxEdits
    /\ edits' = edits + 1
    /\ builder' =
         [builder EXCEPT !.headers[index] = Typed(builder.headers[index], member)]
    /\ selectedRequest' =
         IF selectedRequest.isNull THEN selectedRequest
         ELSE [selectedRequest EXCEPT !.fields.headers =
                 WithObject(@, selectedRequest.fields.headerObjects,
                            builder.headerObjects[index],
                            Typed(builder.headers[index], member))]
    /\ ~rejected
    /\ UNCHANGED <<loading, response, builderUrl, activeTab, inFlight,
                   axiosCalls, latestInFlight, rejected, shown, editVars>>
    /\ UNCHANGED <<storeVars, resolveVars, sendVars, cliVars, browserVars>>

\* The types chosen in the Select of the Auth tab.
ChosenAuthTypes == {"none", "bearer"}

\* The Select of the Auth tab, which is there on that tab: auth: null for
\* none, else { type }.
AuthTypeChange ==
  \E type \in ChosenAuthTypes :
    /\ activeTab = "auth"
    /\ edits < MaxEdits
    /\ edits' = edits + 1
    /\ builder' =
         IF type = "none" THEN [builder EXCEPT !.hasAuth = FALSE, !.auth = NoAuth]
         ELSE [builder EXCEPT !.hasAuth = TRUE, !.auth = [NoAuth EXCEPT !.type = type]]
    /\ ~rejected
    /\ UNCHANGED <<selectedRequest, loading, response, builderUrl, activeTab, inFlight,
                   axiosCalls, latestInFlight, rejected, shown, editVars>>
    /\ UNCHANGED <<storeVars, resolveVars, sendVars, cliVars, browserVars>>

\* The token typed into the input of the bearer token.
TypedToken == <<"s">>

\* The input of the bearer token, which is there on the Auth tab while the
\* auth's type is bearer: auth: { type: 'bearer', bearer: { token: val } }.
BearerTokenInput ==
  /\ activeTab = "auth"
  /\ builder.hasAuth /\ builder.auth.type = "bearer"
  /\ edits < MaxEdits
  /\ edits' = edits + 1
  /\ builder' = [builder EXCEPT !.auth = [NoAuth EXCEPT !.type = "bearer", !.has = TRUE,
                                                        !.token = Str(TypedToken)]]
  /\ ~rejected
  /\ UNCHANGED <<selectedRequest, loading, response, builderUrl, activeTab, inFlight,
                 axiosCalls, latestInFlight, rejected, shown, editVars>>
  /\ UNCHANGED <<storeVars, resolveVars, sendVars, cliVars, browserVars>>

\* The types chosen in the Select of the Body tab.
ChosenBodyTypes == {"none", "json", "raw"}

\* The Select of the Body tab, which is there on that tab: body: null for
\* none, else { type }.
BodyTypeChange ==
  \E type \in ChosenBodyTypes :
    /\ activeTab = "body"
    /\ edits < MaxEdits
    /\ edits' = edits + 1
    /\ builder' =
         IF type = "none" THEN [builder EXCEPT !.hasBody = FALSE, !.body = NoBody]
         ELSE [builder EXCEPT !.hasBody = TRUE, !.body = [NoBody EXCEPT !.type = type]]
    /\ ~rejected
    /\ UNCHANGED <<selectedRequest, loading, response, builderUrl, activeTab, inFlight,
                   axiosCalls, latestInFlight, rejected, shown, editVars>>
    /\ UNCHANGED <<storeVars, resolveVars, sendVars, cliVars, browserVars>>

\* The texts typed into the JSON body input: {"t":"{{a}}"} and {a
TypedBodies == {JsonOpen \o PlaceholderA \o JsonClose, <<"{", "a">>}

\* The body the JSON body input sets for the text typed: the value
\* JSON.parse gives as json (an object { t: string }), or, JSON.parse
\* throwing, the text as raw.
JsonBodyOf(val, parsed) ==
  IF parsed.ok
  THEN [NoBody EXCEPT !.type = "json", !.json = Str(parsed.value.items[1].value.text)]
  ELSE [NoBody EXCEPT !.type = "json", !.raw = Str(val)]

\* The JSON body input, which is there on the Body tab while the body's type
\* is json.
JsonBodyInput ==
  \E val \in TypedBodies :
    /\ activeTab = "body"
    /\ builder.hasBody /\ builder.body.type = "json"
    /\ edits < MaxEdits
    /\ edits' = edits + 1
    /\ builder' = [builder EXCEPT !.body = JsonBodyOf(val, JsonParse(val))]
    /\ ~rejected
    /\ UNCHANGED <<selectedRequest, loading, response, builderUrl, activeTab, inFlight,
                   axiosCalls, latestInFlight, rejected, shown, editVars>>
    /\ UNCHANGED <<storeVars, resolveVars, sendVars, cliVars, browserVars>>

\* The text typed into the raw body input.
TypedRaw == <<"r">>

\* The raw body input, which is there on the Body tab while the body's type
\* is raw: body: { type: 'raw', raw: val }.
RawBodyInput ==
  /\ activeTab = "body"
  /\ builder.hasBody /\ builder.body.type = "raw"
  /\ edits < MaxEdits
  /\ edits' = edits + 1
  /\ builder' = [builder EXCEPT !.body = [NoBody EXCEPT !.type = "raw", !.raw = Str(TypedRaw)]]
  /\ ~rejected
  /\ UNCHANGED <<selectedRequest, loading, response, builderUrl, activeTab, inFlight,
                 axiosCalls, latestInFlight, rejected, shown, editVars>>
  /\ UNCHANGED <<storeVars, resolveVars, sendVars, cliVars, browserVars>>

\* What the user does to the form and its request being sent, and a send
\* settling.
FormStep ==
  \/ HandleUrlChange
  \/ HandleMethodChange
  \/ SwitchTab
  \/ HandleAddItem
  \/ AddCommonHeader
  \/ ParamInput
  \/ HeaderInput
  \/ AuthTypeChange
  \/ BearerTokenInput
  \/ BodyTypeChange
  \/ JsonBodyInput
  \/ RawBodyInput
  \/ ClickClear
  \/ BuilderCtrlEnter
  \/ AppCtrlEnter
  \/ SendSettles

BuildNext ==
  \/ FormStep
  \/ SendRejected

\* The requests the App selects here have the fields of a new request, with
\* which building a config never throws: no send is rejected.
TuiNext ==
  \/ BuilderCtrlEnter
  \/ ClickSend
  \/ AppCtrlEnter
  \/ HandleNewRequest
  \/ HandleSelectRequest
  \/ HandleUrlChange
  \/ ClickClear
  \/ SendSettles

(***************************************************************************)
(* The TUI saving requests.                                                *)
(***************************************************************************)
EditInit ==
  /\ now = InitTime
  /\ cdir \in EditDirs
  /\ edir = EmptyDir
  /\ configFile = ConfigFile(Config(DefaultMaxHistorySize))
  /\ history = HistoryFile(<<>>)
  /\ nextEntry = 0
  /\ ret = NoRet
  /\ ResolveIdle
  /\ SendIdle
  /\ AppStarts
  /\ CliIdle

\* The first index of a set of indexes.
First(at) == CHOOSE i \in at : \A j \in at : i <= j

\* The requests of a collection after handleSaveRequest put the request
\* among them: in the place of the first one with its id, or at the end.
PutRequest(requests, request) ==
  LET existing == {i \in 1 .. Len(requests) : requests[i].id = request.id}
  IN IF existing # {}
     THEN [requests EXCEPT ![First(existing)] = request]
     ELSE Append(requests, request)

\* App.handleSaveRequest(request) at clock reading t, the request being the
\* selected object itself or one just made: nothing without a selected
\* collection the App holds; else the request is put among the collection's
\* requests, a copy of it in the place of the one with its id or the object
\* itself at the end, and the collection saved.
HandleSaveRequest(request, t, isSelected) ==
  LET at == {k \in 1 .. Len(collections) : collections[k].id = selectedCollection.id}
  IN IF selectedCollection.isNull \/ at = {}
     THEN UNCHANGED <<cdir, collections, aliases>>
     ELSE LET k == First(at)
              existing == {i \in 1 .. Len(collections[k].requests) :
                             collections[k].requests[i].id = request.id}
              saved == [collections[k] EXCEPT !.requests = PutRequest(@, request)]
          IN /\ cdir' = SaveCollection(cdir, saved, t)
             /\ collections' = [collections EXCEPT ![k] = Stamp(saved, t)]
             /\ aliases' =
                  IF existing # {} THEN Detached(aliases, Slot(k, First(existing)))
                  ELSE IF ~isSelected THEN aliases
                  ELSE Attached(aliases, Slot(k, Len(saved.requests)), SelectedPlace)

\* Ctrl+S as the App hears it: the selected request is saved.
AppCtrlS ==
  \E t \in Readings(now) :
    /\ ~selectedRequest.isNull
    /\ now' = t
    /\ HandleSaveRequest(selectedRequest, t, TRUE)
    /\ ~rejected
    /\ UNCHANGED <<selectedRequest, loading, response, builderUrl, formVars, inFlight, axiosCalls,
                   latestInFlight, rejected, shown,
                   selectedCollection, created>>
    /\ UNCHANGED <<edir, configFile, history, nextEntry, ret, resolveVars, sendVars, cliVars, browserVars>>

\* RequestBuilder.handleSave(): onSave(getCurrentRequest()).  The clock is
\* read at t for the id of a request made anew and again at u, not before,
\* when saveCollection stamps the collection.
HandleSave ==
  \E t \in Readings(now) : \E u \in Readings(t) :
    /\ selectedRequest.isNull => created < MaxNew
    /\ now' = u
    /\ HandleSaveRequest(GetCurrentRequest(t), u, FALSE)
    /\ created' = IF selectedRequest.isNull THEN created + 1 ELSE created
    /\ ~rejected
    /\ UNCHANGED <<selectedRequest, loading, response, builderUrl, formVars, inFlight, axiosCalls,
                   latestInFlight, rejected, shown,
                   selectedCollection>>
    /\ UNCHANGED <<edir, configFile, history, nextEntry, ret, resolveVars, sendVars, cliVars, browserVars>>

\* Ctrl+S as the RequestBuilder hears it.
BuilderCtrlS == HandleSave

\* The Save button: disabled={!hasUrl}.
ClickSave ==
  /\ builderUrl # <<>>
  /\ HandleSave

EditNext ==
  \/ Tick
  \/ HandleNewRequest
  \/ HandleSelectRequest
  \/ HandleSelectCollection
  \/ HandleUrlChange
  \/ ClickClear
  \/ AppCtrlS
  \/ BuilderCtrlS
  \/ ClickSave

(***************************************************************************)
(* The CollectionBrowser of the TUI: the tree of the App's collections as  *)
(* a flat list of items under a cursor.  Its search query stays empty      *)
(* (handleSearch is a placeholder), so the list is never filtered.         *)
(***************************************************************************)
\* A collection with one request in a folder that also lists a request the
\* collection lacks, and a collection with two requests outside folders.
BrowserDir ==
  WriteFile(WriteFile(EmptyDir, JsonName(0), Parseable(Foldered(0, <<0, 1>>))),
            JsonName(1),
            Parseable(WithRequests(Doc(1, "B", 1, 1),
                                   <<RequestOf(0, <<"u">>, 0),
                                     RequestOf(1, <<"w">>, 0)>>)))

BrowserInit ==
  /\ now = InitTime
  /\ cdir \in {EmptyDir, BrowserDir}
  /\ edir = EmptyDir
  /\ configFile = ConfigFile(Config(DefaultMaxHistorySize))
  /\ history = HistoryFile(<<>>)
  /\ nextEntry = 0
  /\ ret = NoRet
  /\ ResolveIdle
  /\ SendIdle
  /\ AppStarts
  /\ CliIdle

\* An entry of the flat list; at is the place of the request object that
\* data is (the collection, for a collection and a folder).
Item(type, id, data, at) == [type |-> type, id |-> id, data |-> data, at |-> at]

\* The requests of a folder of the c-th collection: for each id it lists,
\* the first request of the collection with that id, if there is one.
RECURSIVE FolderRequests(_, _, _)
FolderRequests(collection, c, requestIds) ==
  IF requestIds = <<>> THEN <<>>
  ELSE LET at == {i \in 1 .. Len(collection.requests) :
                    collection.requests[i].id = Head(requestIds)}
       IN (IF at = {} THEN <<>>
           ELSE <<Item("request", Head(requestIds), collection.requests[First(at)],
                       Slot(c, First(at)))>>)
          \o FolderRequests(collection, c, Tail(requestIds))

\* The folders of an expanded collection, each followed by its requests when
\* it is expanded.
RECURSIVE FolderItems(_, _, _, _)
FolderItems(collection, c, folders, expFolders) ==
  IF folders = <<>> THEN <<>>
  ELSE <<Item("folder", Head(folders).id, Head(folders), Slot(c, 0))>>
       \o (IF Head(folders).id \in expFolders
           THEN FolderRequests(collection, c, Head(folders).requests)
           ELSE <<>>)
       \o FolderItems(collection, c, Tail(folders), expFolders)

\* collection.folders.flatMap(f => f.requests), as a set
RequestsInFolders(collection) ==
  UNION {{collection.folders[f].requests[i] : i \in 1 .. Len(collection.folders[f].requests)} :
           f \in 1 .. Len(collection.folders)}

\* The requests of the c-th collection, from the i-th on, that no folder
\* lists.
RECURSIVE LooseRequests(_, _, _, _)
LooseRequests(requests, c, i, inFolders) ==
  IF i > Len(requests) THEN <<>>
  ELSE (IF requests[i].id \in inFolders THEN <<>>
        ELSE <<Item("request", requests[i].id, requests[i], Slot(c, i))>>)
       \o LooseRequests(requests, c, i + 1, inFolders)

\* The items of the collections from the c-th on.
RECURSIVE CollectionItems(_, _, _, _)
CollectionItems(cols, c, expCollections, expFolders) ==
  IF c > Len(cols) THEN <<>>
  ELSE <<Item("collection", cols[c].id, cols[c], Slot(c, 0))>>
       \o (IF cols[c].id \in expCollections
           THEN FolderItems(cols[c], c, cols[c].folders, expFolders)
                \o LooseRequests(cols[c].requests, c, 1, RequestsInFolders(cols[c]))
           ELSE <<>>)
       \o CollectionItems(cols, c + 1, expCollections, expFolders)

\* CollectionBrowser.buildItemList()
BuildItemList(cols, expCollections, expFolders) ==
  CollectionItems(cols, 1, expCollections, expFolders)

\* The list as the browser shows it now.
Items == BuildItemList(collections, expandedCollections, expandedFolders)

\* Math.max and Math.min
Max(a, b) == IF a >= b THEN a ELSE b
Min(a, b) == IF a <= b THEN a ELSE b

\* The up key, navigateUp()
NavigateUp ==
  /\ selectedIndex' = Max(0, selectedIndex - 1)
  /\ UNCHANGED <<expandedCollections, expandedFolders>>
  /\ UNCHANGED <<storeVars, resolveVars, sendVars, tuiVars, cliVars>>

\* The down key, navigateDown()
NavigateDown ==
  /\ selectedIndex' = Min(Len(Items) - 1, selectedIndex + 1)
  /\ UNCHANGED <<expandedCollections, expandedFolders>>
  /\ UNCHANGED <<storeVars, resolveVars, sendVars, tuiVars, cliVars>>

\* items[this.state.selectedIndex] is an item and not undefined
HasItem == selectedIndex >= 0 /\ selectedIndex < Len(Items)

\* items[this.state.selectedIndex], the list counted from 0
CursorItem == Items[selectedIndex + 1]

\* toggleExpanded(id, type) on one of the two sets
ToggleExpanded(expanded, id) ==
  IF id \in expanded THEN expanded \ {id} ELSE expanded \cup {id}

\* The enter key, handleSelect(): a collection is selected in the App and
\* toggled, a folder is toggled, a request is selected in the App.
HandleSelect ==
  IF ~HasItem THEN UNCHANGED <<storeVars, resolveVars, sendVars, uiVars>>
  ELSE
    /\ selectedIndex' = selectedIndex
    /\ expandedCollections' =
         IF CursorItem.type = "collection"
         THEN ToggleExpanded(expandedCollections, CursorItem.id)
         ELSE expandedCollections
    /\ expandedFolders' =
         IF CursorItem.type = "folder"
         THEN ToggleExpanded(expandedFolders, CursorItem.id)
         ELSE expandedFolders
    /\ selectedCollection' =
         IF CursorItem.type = "collection" THEN Selected(CursorItem.id)
         ELSE selectedCollection
    /\ IF CursorItem.type = "request"
       THEN /\ selectedRequest' = CursorItem.data
            /\ response' = "null"
            /\ builderUrl' = UrlAfterSelecting(CursorItem.at, CursorItem.data)
            /\ builder' = FieldsAfterSelecting(CursorItem.at, CursorItem.data)
            /\ aliases' = Attached(aliases, SelectedPlace, CursorItem.at)
            /\ shown' = "none"
       ELSE UNCHANGED <<selectedRequest, response, builderUrl, builder, shown, aliases>>
    /\ UNCHANGED <<activeTab, edits>>
    /\ ~rejected
    /\ UNCHANGED <<loading, inFlight, axiosCalls, latestInFlight, rejected, collections, created>>
    /\ UNCHANGED <<storeVars, resolveVars, sendVars, cliVars>>

\* The space key, handleToggleExpand()
HandleToggleExpand ==
  IF ~HasItem THEN UNCHANGED <<storeVars, resolveVars, sendVars, uiVars>>
  ELSE
    /\ selectedIndex' = selectedIndex
    /\ expandedCollections' =
         IF CursorItem.type = "collection"
         THEN ToggleExpanded(expandedCollections, CursorItem.id)
         ELSE expandedCollections
    /\ expandedFolders' =
         IF CursorItem.type = "folder"
         THEN ToggleExpanded(expandedFolders, CursorItem.id)
         ELSE expandedFolders
    /\ UNCHANGED <<storeVars, resolveVars, sendVars, tuiVars, cliVars>>

BrowserNext ==
  \/ NavigateUp
  \/ NavigateDown
  \/ HandleSelect
  \/ HandleToggleExpand

(***************************************************************************)
(* The CLI commands.  Each is a process of its own over the same storage   *)
(* directory; run awaits sendRequest before it exits.                      *)
(***************************************************************************)

\* console.error(message); process.exit(1) -- and what Node does with an
\* exception no handler catches: the error on stderr, exit status 1.
CommandFailed == [exit |-> 1, stderr |-> TRUE]

\* A command that ran to its end; the store's own console.error calls (a
\* load that met a file it could not parse) went to stderr or not.
CommandDone(logged) == [exit |-> 0, stderr |-> logged]

\* loadCollections / loadEnvironments logging the error they swallow.
LoadLogs(dir) == ReadAll(dir, ReadDir(DOMAIN dir), <<>>).threw

\* for (const col of collections) { req = col.requests.find(...); if (req) break }
\* A collection without requests on the way makes col.requests.find throw
\* a TypeError.
RECURSIVE FindRequest(_, _)
FindRequest(cols, requestId) ==
  IF cols = <<>>
  THEN [found |-> FALSE, threw |-> FALSE, request |-> NoRequest, variables |-> EmptyVars]
  ELSE LET col == Head(cols)
           at == {i \in 1 .. Len(col.requests) : col.requests[i].id = requestId}
       IN IF ~col.hasRequests
          THEN [found |-> FALSE, threw |-> TRUE, request |-> NoRequest,
                variables |-> EmptyVars]
          ELSE IF at # {}
          THEN [found |-> TRUE, threw |-> FALSE,
                request |-> col.requests[CHOOSE i \in at : \A j \in at : i <= j].request,
                variables |-> col.variables]
          ELSE FindRequest(Tail(cols), requestId)

\* collections.forEach((col) => ... col.requests.length ...) of list throws
\* a TypeError at a collection without requests.
ListThrows(cols) == \E i \in 1 .. Len(cols) : ~cols[i].hasRequests

\* environments.find((e) => e.id === options.env || e.name === options.env):
\* the index of the first such environment, or 0.
FindEnvironment(environments, env) ==
  LET at == {i \in 1 .. Len(environments) :
               IdText(environments[i].id) = env \/ environments[i].name = env}
  IN IF at = {} THEN 0 ELSE CHOOSE i \in at : \A j \in at : i <= j

\* A mutant of Spread: the first object's members win.
SpreadUnder(a, b) ==
  [n \in DOMAIN a \cup DOMAIN b |-> IF n \in DOMAIN a THEN a[n] ELSE b[n]]

\* { ...a, ...b }
Spread(a, b) ==
  [n \in DOMAIN a \cup DOMAIN b |-> IF n \in DOMAIN b THEN b[n] ELSE a[n]]

\* The envVars of run: the collection's variables, with those of the
\* environment --env names spread over them when there is one.
RunEnvVars(variables, option, dir) ==
  IF option.given
  THEN LET environments == LoadEnvironments(dir)
           k == FindEnvironment(environments, option.env)
       IN IF k # 0 THEN Spread(variables, environments[k].variables) ELSE variables
  ELSE variables

CliInit ==
  /\ ResolveIdle
  /\ SendIdle
  /\ TuiIdle
  /\ CliIdle
  /\ now = InitTime
  /\ \/ /\ cdir \in CliDirs
        /\ edir \in CliEnvDirs
        /\ configFile = ConfigFile(Config(DefaultMaxHistorySize))
        /\ history = HistoryFile(<<1>>)
     \/ \* a first start, and a history.json that cannot be opened
        /\ cdir = EmptyDir
        /\ edir = EmptyDir
        /\ \E files \in {<<Unusable("missing"), Unusable("missing")>>,
                          <<ConfigFile(Config(DefaultMaxHistorySize)),
                            Unusable("unreadable")>>} :
             configFile = files[1] /\ history = files[2]
  /\ nextEntry = 1
  /\ ret = NoRet

\* StorageService.getInstance() in a new process: the constructor runs, and
\* with it ensureDirectories().
GetInstance ==
  /\ configFile' = EnsuredConfig(configFile)
  /\ history' = EnsuredHistory(history)

\* No command is running: one process of the CLI at a time.
CliFree == cliPc \in {"shell", "exited"}

\* What a command that starts and exits at once leaves of the process.
Exits(cmd, result, raised) ==
  /\ CliFree
  /\ cliCmd' = cmd
  /\ cliPc' = "exited"
  /\ cliExit' = result.exit
  /\ cliStderr' = result.stderr
  /\ cliRaised' = raised
  /\ cliSent' = NotSent

\* termin-api list: nothing catches what col.requests.length throws.
CliList ==
  /\ GetInstance
  /\ Exits(Cmd("list"),
           IF ListThrows(LoadCollections(cdir)) THEN CommandFailed
           ELSE CommandDone(LoadLogs(cdir)),
           FALSE)
  /\ UNCHANGED <<now, cdir, edir, nextEntry, ret>>
  /\ UNCHANGED <<resolveVars, sendVars, tuiVars, browserVars, outFile>>

\* termin-api import <file>: importCollection(file), and once it has
\* returned the collection, collection.requests.length in the same try.
CliImport ==
  \E src \in CliSourceFiles :
    IF ~src.valid
    THEN /\ GetInstance
         /\ Exits([Cmd("import") EXCEPT !.id = "file"], CommandFailed, TRUE)
         /\ UNCHANGED <<now, cdir, edir, nextEntry, ret>>
         /\ UNCHANGED <<resolveVars, sendVars, tuiVars, browserVars, outFile>>
    ELSE \E t1 \in Readings(now) : \E t2 \in Readings(t1) :
         \E t3 \in Readings(t2) : \E t4 \in Readings(t3) :
           /\ GetInstance
           /\ Exits([Cmd("import") EXCEPT !.id = "file"],
                    IF src.doc.hasRequests THEN CommandDone(FALSE) ELSE CommandFailed,
                    FALSE)
           /\ now' = t4
           /\ cdir' = SaveCollection(cdir, NewIdentity(cdir, src.doc, t1, t2, t3), t4)
           /\ UNCHANGED <<edir, nextEntry, ret>>
           /\ UNCHANGED <<resolveVars, sendVars, tuiVars, browserVars, outFile>>

\* termin-api export <collection-id> -o <file>
CliExport ==
  \E i \in 0 .. MaxTime :
    LET x == ExportCollection(cdir, i, outFile) IN
    /\ Exits([Cmd("export") EXCEPT !.id = IdText(i)],
             IF x.raised THEN CommandFailed ELSE CommandDone(FALSE), x.raised)
    /\ outFile' = x.out
    /\ GetInstance
    /\ UNCHANGED <<now, cdir, edir, nextEntry, ret>>
    /\ UNCHANGED <<resolveVars, sendVars, tuiVars, browserVars>>

\* termin-api run <request-id> [--env <environment>], to its exit or to its
\* await import("./services/http"): the request is looked for and the
\* envVars are made.  What the loop over the collections throws lands in the
\* command's catch block.
CliRun ==
  \E requestId \in CliRequestIds, option \in CliEnvOptions :
    LET f == FindRequest(LoadCollections(cdir), requestId)
        cmd == [Cmd("run") EXCEPT !.id = requestId, !.option = option]
        logged == LoadLogs(cdir) \/ (option.given /\ LoadLogs(edir))
    IN /\ CliFree
       /\ cliCmd' = cmd
       /\ cliRaised' = FALSE
       /\ IF f.threw \/ ~f.found
          THEN /\ cliPc' = "exited"
               /\ cliExit' = CommandFailed.exit
               /\ cliStderr' = CommandFailed.stderr
               /\ cliSent' = NotSent
          ELSE /\ cliPc' = "importing"
               /\ cliExit' = 0
               /\ cliStderr' = logged
               /\ cliSent' = [NotSent EXCEPT !.envVars = RunEnvVars(f.variables, option, edir)]
       /\ GetInstance
       /\ UNCHANGED <<now, cdir, edir, nextEntry, ret>>
       /\ UNCHANGED <<resolveVars, sendVars, tuiVars, browserVars, outFile>>

\* run: the import has resolved, and sendRequest(foundRequest, envVars) is
\* called: it builds the config and calls axios with it, or building throws
\* and its promise is rejected.  The request is the one found before the
\* await, the collections directory being as it was.
CliRunSends ==
  LET b == BuildConfig(FindRequest(LoadCollections(cdir), cliCmd.id).request,
                       cliSent.envVars)
  IN /\ cliPc = "importing"
     /\ cliPc' = IF b.threw THEN "rejected" ELSE "awaiting"
     /\ cliSent' = [cliSent EXCEPT !.called = TRUE, !.axios = ~b.threw]
     /\ UNCHANGED <<cliCmd, cliExit, cliStderr, cliRaised, outFile>>
     /\ UNCHANGED <<storeVars, resolveVars, sendVars, tuiVars, browserVars>>

\* run: the await of sendRequest resumes on the promise building rejected,
\* in the command's catch block.
CliRunCatches ==
  /\ cliPc = "rejected"
  /\ cliPc' = "exited"
  /\ cliExit' = CommandFailed.exit
  /\ cliStderr' = CommandFailed.stderr
  /\ cliRaised' = TRUE
  /\ UNCHANGED <<cliCmd, cliSent, outFile>>
  /\ UNCHANGED <<storeVars, resolveVars, sendVars, tuiVars, browserVars>>

\* run: the transport settles the call, and the command prints the response
\* or lands in its catch block.
CliRunSettles ==
  \E t \in {Delivered(status) : status \in Statuses} \cup {NoResponse, SetupFailure} :
    LET outcome == IF t.kind = "response" THEN Settled(t.status)
                   ELSE Caught(Failure(FALSE, 0, t.kind = "noResponse"))
        result == IF outcome.kind = "response" THEN CommandDone(cliStderr)
                  ELSE CommandFailed
    IN /\ cliPc = "awaiting"
       /\ cliPc' = "exited"
       /\ cliExit' = result.exit
       /\ cliStderr' = result.stderr
       /\ cliRaised' = (outcome.kind = "error")
       /\ cliSent' = [cliSent EXCEPT !.transport = t]
       /\ UNCHANGED <<cliCmd, outFile, storeVars, resolveVars, sendVars, tuiVars, browserVars>>

\* termin-api clear-history: the write of history.json goes through or
\* throws, and nothing catches what clearHistory rethrows.
CliClearHistory ==
  LET x == ClearHistory(EnsuredHistory(history)) IN
    /\ Exits(Cmd("clear-history"),
             IF x.raised THEN CommandFailed ELSE CommandDone(FALSE), x.raised)
    /\ configFile' = EnsuredConfig(configFile)
    /\ history' = x.file
    /\ UNCHANGED <<now, cdir, edir, nextEntry, ret>>
    /\ UNCHANGED <<resolveVars, sendVars, tuiVars, browserVars, outFile>>

\* termin-api info
CliInfo ==
  /\ GetInstance
  /\ Exits(Cmd("info"),
           CommandDone(LoadLogs(cdir) \/ LoadLogs(edir) \/ ~EnsuredHistory(history).valid),
           FALSE)
  /\ UNCHANGED <<now, cdir, edir, nextEntry, ret>>
  /\ UNCHANGED <<resolveVars, sendVars, tuiVars, browserVars, outFile>>

CliNext ==
  \/ CliList
  \/ CliImport
  \/ CliExport
  \/ CliRun
  \/ CliRunSends
  \/ CliRunCatches
  \/ CliRunSettles
  \/ CliClearHistory
  \/ CliInfo

vars == <<storeVars, resolveVars, sendVars, uiVars>>

Init == StoreInit

Next == StoreNext

\* The collections and environments of the store.
Spec == Init /\ [][Next]_vars

\* The history and the config of the store.
SpecHistory == HistoryInit /\ [][HistoryNext]_vars

\* The variable resolver.
SpecResolve == ResolveInit /\ [][ResolveNext]_vars

\* One call of sendRequest.
SpecSend == SendInit /\ [][SendNext]_vars

\* The TUI.
SpecTui == TuiInit /\ [][TuiNext]_vars

\* The RequestBuilder's form.
SpecBuild == TuiInit /\ [][BuildNext]_vars

\* The CollectionBrowser.
SpecBrowser == BrowserInit /\ [][BrowserNext]_vars

\* The CLI.
SpecCli == CliInit /\ [][CliNext]_vars

\* A sendRequest call leaves its beginning: the steps of SendRequestCall.
CallBegins == sPc = "idle" /\ sPc' \in {"inflight", "raised"}

\* axios settles the call it was given.
TransportSettles == TransportResponds \/ TransportNoResponse \/ TransportSetupFails

\* sendRequest when the call runs and the transport settles every call: with
\* a timeout set, axios rejects a call no response has settled.
SpecSendFair ==
  SendFairInit /\ [][SendNext]_vars /\ WF_sPc(CallBegins) /\ WF_vars(TransportSettles)

\* The TUI saving requests.
SpecEdit == EditInit /\ [][EditNext]_vars

\* The collections of the store, from none.
SpecMap == MapInit /\ [][MapNext]_vars

\* The store operations under retry.
SpecRetry == RetryInit /\ [][RetryNext]_vars

(***************************************************************************)
(* The properties.                                                         *)
(***************************************************************************)

\* The documents of the .json files of a directory that parse, in listing order.
RECURSIVE DocsOf(_, _)
DocsOf(dir, files) ==
  IF files = <<>> THEN <<>>
  ELSE (IF EndsWithJson(Head(files)) /\ dir[Head(files)].valid
        THEN <<dir[Head(files)].doc>> ELSE <<>>) \o DocsOf(dir, Tail(files))

ParseableDocs(dir) == DocsOf(dir, ReadDir(DOMAIN dir))

\* C1: loadCollections returns every collection file that parses, skipping
\* the files that do not, and does not raise; loadEnvironments does the same
\* over the environments directory.
C1_LoadSkipsUnparseable ==
  /\ ret.op = "loadCollections" => ~ret.raised /\ ret.list = ParseableDocs(cdir)
  /\ ret.op = "loadEnvironments" => ~ret.raised /\ ret.list = ParseableDocs(edir)

\* C2: every import persists a collection under an id that is neither the id
\* of the source document nor the id of a collection file already in the
\* store, so that no import replaces a file and each adds one collection.
C2_ImportNeverReusesId ==
  (ret.op = "importCollection" /\ ~ret.raised) =>
    /\ ret.doc.id # ret.srcId
    /\ ~ret.overwrote

\* C3: the updatedAt a save persists is strictly later than the collection's
\* updatedAt before the call, the save inside importCollection included.
C3_SaveStrictlyLater ==
  (ret.op \in {"saveCollection", "importCollection"} /\ ~ret.raised) =>
    ret.doc.updatedAt > ret.before

\* Entries are numbered as they are added: most recent first is decreasing.
MostRecentFirst(list) ==
  \A i, j \in 1 .. Len(list) : i < j => list[i] > list[j]

\* C4: the persisted history is most recent first; after addToHistory it is
\* no longer than the maxHistorySize read by the call and, the file having
\* been written, starts with the new entry; added to a full history, the
\* entry takes the place of the oldest one alone, the others keeping their
\* order.
C4_HistoryOrderedAndCapped ==
  /\ MostRecentFirst(LoadHistory(history))
  /\ ret.op = "addToHistory" => Len(LoadHistory(history)) <= ret.cap
  /\ (ret.op = "addToHistory" /\ history.valid) =>
       /\ history.list # <<>> /\ Head(history.list) = ret.entry
       /\ Len(ret.histBefore) < ret.cap =>
            history.list = <<ret.entry>> \o ret.histBefore
       /\ Len(ret.histBefore) = ret.cap =>
            history.list =
              <<ret.entry>> \o SubSeq(ret.histBefore, 1, Len(ret.histBefore) - 1)

\* C4's case: an entry added to a history that was full, older entries kept.
C4_Witness ==
  /\ ret.op = "addToHistory"
  /\ Len(ret.histBefore) = ret.cap
  /\ ret.cap >= 2
  /\ Len(history.list) = ret.cap

\* The resolution the specification describes: a placeholder whose trimmed
\* name is a key of the mapping is replaced by the value it maps to, whatever
\* that value; any other placeholder stays.
RECURSIVE ResolvedByKey(_, _, _)
ResolvedByKey(text, i, mapping) ==
  IF i > Len(text) THEN <<>>
  ELSE LET j == MatchAt(text, i) IN
       IF j = 0 THEN <<text[i]>> \o ResolvedByKey(text, i + 1, mapping)
       ELSE LET name == Trim(SubSeq(text, i + 2, j - 1))
            IN (IF name \in DOMAIN mapping THEN mapping[name]
                ELSE SubSeq(text, i, j + 1))
                 \o ResolvedByKey(text, j + 2, mapping)

\* C5: processVariables replaces every placeholder whose name is a key of
\* envVars by the value of that key, whatever the value, once per occurrence,
\* and leaves every other placeholder as it is.
C5_ResolveReplacesEveryKey ==
  rDone => rOut = ResolvedByKey(rText, 1, rVars)

\* C6: a response delivered by the transport, whatever its status, is
\* returned as a Response with that status and nothing is raised; no
\* response, or a failure before sending, ends in a raised error and no
\* Response.
C6_SendOutcome ==
  /\ sTransport.kind = "response" =>
       sPc = "returned" /\ sOutcome = ResponseOf(sTransport.status)
  /\ sTransport.kind \in {"noResponse", "setupFailure"} =>
       sPc = "raised" /\ sOutcome.kind = "error"
  /\ sPc = "returned" => sTransport.kind = "response"
  /\ sPc = "raised" => sOutcome.kind = "error"

\* C6's case: an error status was delivered and the call has returned.
C6_Witness ==
  /\ sTransport = Delivered(404)
  /\ sPc = "returned"
  /\ sOutcome.status = 404

\* The config axios was called with, once there is one.
Dispatched == sConfig # NoConfig

\* The query entry (k, v) comes from an enabled param.
FromEnabledParam(k, v) ==
  \E i \in 1 .. Len(sReq.params) :
    /\ sReq.params[i].enabled
    /\ sReq.params[i].key = k
    /\ v = ProcessVariables(sReq.params[i].value, sVars)

\* The header entry (k, v) comes from an enabled header.
FromEnabledHeader(k, v) ==
  \E i \in 1 .. Len(sReq.headers) :
    /\ sReq.headers[i].enabled
    /\ sReq.headers[i].key = k
    /\ v = ProcessVariables(sReq.headers[i].value, sVars)

\* The entry (k, v) comes from the auth step, into the query or the headers.
FromAuth(k, v, place) ==
  /\ sReq.hasAuth
  /\ sReq.auth.has
  /\ \/ /\ sReq.auth.type = "apikey"
        /\ sReq.auth.addTo = place
        /\ k = sReq.auth.key
        /\ v = ProcessVariables(sReq.auth.value.s, sVars)
     \/ /\ sReq.auth.type \in {"bearer", "basic", "jwt"}
        /\ place = "header"
        /\ k = "Authorization"

\* The header entry (k, v) is the content type set for the body.
FromContentTypeHint(k, v) ==
  /\ sConfig.hasData
  /\ k = "Content-Type"
  /\ v \in {ApplicationJson, ApplicationForm}

\* C7: every query entry of the outgoing call comes from an enabled param or
\* from the auth step, and every header entry from an enabled header, from
\* the auth step or from the content-type hint: a disabled param or header
\* contributes nothing.
C7_DisabledEntriesAbsent ==
  Dispatched =>
    /\ \A k \in DOMAIN sConfig.params :
         FromEnabledParam(k, sConfig.params[k])
           \/ FromAuth(k, sConfig.params[k], "query")
    /\ \A k \in DOMAIN sConfig.headers :
         \/ FromEnabledHeader(k, sConfig.headers[k])
         \/ FromAuth(k, sConfig.headers[k], "header")
         \/ FromContentTypeHint(k, sConfig.headers[k])

\* C7's case: a call went out for a request with a disabled param next to an
\* enabled one, and its query has an entry.
C7_Witness ==
  /\ Dispatched
  /\ \E i, j \in 1 .. Len(sReq.params) :
       ~sReq.params[i].enabled /\ sReq.params[j].enabled
  /\ DOMAIN sConfig.params # {}
  /\ ~sReq.hasAuth

\* The spellings of the content-type header name among the model's headers.
ContentTypeNames == {"Content-Type", "content-type"}

\* The enabled headers of the request that set a content type.
ExplicitContentTypes ==
  {i \in 1 .. Len(sReq.headers) :
     sReq.headers[i].enabled /\ sReq.headers[i].key \in ContentTypeNames}

\* C8: when a body applies, the default content type of the body's type is
\* added if and only if no enabled header sets a content-type header, in any
\* letter case and with any value; one that is set goes out unchanged and is
\* the only content-type header.
C8_ContentTypeHint ==
  (Dispatched /\ sConfig.hasData) =>
    IF ExplicitContentTypes = {}
    THEN /\ sReq.body.type \in {"json", "graphql"} =>
              /\ "Content-Type" \in DOMAIN sConfig.headers
              /\ sConfig.headers["Content-Type"] = ApplicationJson
         /\ sReq.body.type = "x-www-form-urlencoded" =>
              /\ "Content-Type" \in DOMAIN sConfig.headers
              /\ sConfig.headers["Content-Type"] = ApplicationForm
    ELSE /\ Cardinality(DOMAIN sConfig.headers \cap ContentTypeNames) = 1
         /\ \A k \in DOMAIN sConfig.headers \cap ContentTypeNames :
              FromEnabledHeader(k, sConfig.headers[k])

\* The auth step of the request throws.
AuthThrows ==
  sReq.hasAuth /\ ApplyAuth(NoConfig, sReq.auth, sVars).threw

\* C9: for a json body, with a structured value or with only the raw
\* fallback text, the encoder does not raise and the send is dispatched; the
\* payload is the parsed value of the resolved text, or that text when it
\* does not parse.
C9_JsonBodyNeverRaises ==
  (sPc # "idle" /\ sReq.hasBody /\ sReq.body.type = "json"
     /\ sReq.method \in {"POST", "PUT", "PATCH"} /\ ~AuthThrows) =>
    /\ Dispatched
    /\ sConfig.hasData
    /\ sConfig.data.kind \in {"parsed", "string"}
    /\ sReq.body.json.def =>
         LET resolved == ProcessVariables(JsonStringify(sReq.body.json.s), sVars)
         IN IF JsonParse(resolved).ok
            THEN sConfig.data = ParsedPayload(JsonParse(resolved).value)
            ELSE sConfig.data = StringPayload(resolved)

\* C10: a GET, DELETE, HEAD or OPTIONS request goes out without a payload and
\* without a content-type hint, a body being configured or not; only POST,
\* PUT and PATCH produce a payload.
C10_BodyOnlyForPayloadMethods ==
  /\ (sPc # "idle" /\ sReq.method \in {"GET", "DELETE", "HEAD", "OPTIONS"}
        /\ ~AuthThrows) =>
       /\ Dispatched
       /\ ~sConfig.hasData
       /\ \A k \in DOMAIN sConfig.headers :
            sConfig.headers[k] \notin {ApplicationJson, ApplicationForm}
  /\ (Dispatched /\ sConfig.hasData) => sReq.method \in {"POST", "PUT", "PATCH"}

\* C10's case: a DELETE with a json body configured went out.
C10_Witness ==
  /\ Dispatched
  /\ sReq.method = "DELETE"
  /\ sReq.hasBody
  /\ sReq.body.type = "json"
  /\ sReq.headers = <<>>

\* The send whose auth is an apikey with its member and its value.
ApiKeySend(place) ==
  /\ Dispatched
  /\ sReq.hasAuth
  /\ sReq.auth.type = "apikey"
  /\ sReq.auth.has
  /\ sReq.auth.value.def
  /\ sReq.auth.addTo = place

\* The body step of the send adds data and, at most, a content type.
BodyApplies == sReq.hasBody /\ sReq.method \in {"POST", "PUT", "PATCH"}

\* C11: an apikey auth with addTo = query adds the pair (key, resolved value)
\* to the query and leaves the header entries as they were; with addTo =
\* header it adds the pair to the headers and leaves the query as it was.
C11_ApiKeyRouting ==
  LET before == BeforeAuth(sReq, sVars)
      after == ApplyAuth(before, sReq.auth, sVars).config
      value == ProcessVariables(sReq.auth.value.s, sVars)
  IN /\ ApiKeySend("query") =>
          /\ after.params = Put(before.params, sReq.auth.key, value)
          /\ after.headers = before.headers
          /\ sConfig.params = after.params
          /\ ~BodyApplies => sConfig.headers = before.headers
     /\ ApiKeySend("header") =>
          /\ after.headers = Put(before.headers, sReq.auth.key, value)
          /\ after.params = before.params
          /\ after.hasParams = before.hasParams
          /\ sConfig.params = before.params
          /\ ~BodyApplies => sConfig.headers = after.headers

\* C11's case: a key sent to the query of a request that has headers, where
\* it is among the params and not among the headers.
C11_Witness ==
  /\ ApiKeySend("query")
  /\ ~BodyApplies
  /\ DOMAIN sConfig.headers # {}
  /\ sReq.auth.key \in DOMAIN sConfig.params
  /\ sReq.auth.key \notin DOMAIN sConfig.headers

\* The body step of the request throws.
BodyThrows == BodyApplies /\ ProcessBody(sReq.body, sVars).threw

\* A string member that is missing, read as the empty string.
OrEmpty(m) == IF m.def THEN m ELSE Str(<<>>)

\* The auth with each missing credential read as the empty string.
WithEmptyCredentials(auth) ==
  [auth EXCEPT !.token = OrEmpty(@), !.username = OrEmpty(@),
               !.password = OrEmpty(@), !.value = OrEmpty(@)]

\* C12: applying an auth of any type raises nothing, the member of its type
\* or the credentials in it being there or not; missing credentials count as
\* empty strings and the request is dispatched.
C12_AuthNeverFails ==
  (sPc # "idle" /\ sReq.hasAuth /\ ~BodyThrows) =>
    /\ Dispatched
    /\ Ok(sConfig) =
         BuildConfig([sReq EXCEPT !.auth = WithEmptyCredentials(@)], sVars)

\* C13: on every path that starts a send, a request whose url is empty is
\* rejected before dispatch: axios is never called with an empty url.
C13_EmptyUrlNeverDispatched ==
  \A c \in axiosCalls : c.url # <<>>

\* C14: while a send is outstanding no second one starts: at most one
\* sendRequest call of the App is in flight.
C14_SingleInFlight ==
  inFlight <= 1

\* No collection file that parses holds a request of this id.
NoCollectionHolds(requestId) ==
  \A d \in StoredDocs(cdir) :
    \A i \in 1 .. Len(d.requests) : d.requests[i].id # requestId

\* C15: a command ends with status 0 when what it calls succeeds, and with
\* status 1 and its error message on stderr when something it calls raises;
\* run ends with 1 and without a transport call when no collection holds the
\* request id, and with 0 when a response arrives, an error status included.
C15_CliExitStatus ==
  cliPc = "exited" =>
    /\ cliExit \in {0, 1}
    /\ cliExit = 1 => cliStderr
    /\ cliRaised => cliExit = 1
    /\ (cliCmd.name # "run" /\ ~cliRaised) => cliExit = 0
    /\ cliCmd.name = "run" =>
         /\ NoCollectionHolds(cliCmd.id) => (cliExit = 1 /\ ~cliSent.axios)
         /\ cliSent.transport.kind = "response" => cliExit = 0
         /\ cliExit = 0 => cliSent.transport.kind = "response"

\* The collections run may have found the request in, and the environments
\* of the store that --env names by id or by name.
HoldingCollections(requestId) ==
  {d \in StoredDocs(cdir) :
     \E i \in 1 .. Len(d.requests) : d.requests[i].id = requestId}

NamedEnvironments(env) ==
  {e \in StoredDocs(edir) : IdText(e.id) = env \/ e.name = env}

\* The mapping m is the mapping under overlaid by the mapping over.
Overlaid(m, under, over) ==
  /\ DOMAIN m = DOMAIN under \cup DOMAIN over
  /\ \A n \in DOMAIN over : m[n] = over[n]
  /\ \A n \in DOMAIN under \ DOMAIN over : m[n] = under[n]

\* C20: the variables run passes to sendRequest are those of the collection
\* the request was found in, overlaid by those of the environment whose id
\* or name --env gives, the environment's value winning; without --env they
\* are the collection's alone.
C20_RunVariableMerging ==
  (cliCmd.name = "run" /\ cliSent.called) =>
    \E col \in HoldingCollections(cliCmd.id) :
      IF cliCmd.option.given /\ NamedEnvironments(cliCmd.option.env) # {}
      THEN \E e \in NamedEnvironments(cliCmd.option.env) :
             Overlaid(cliSent.envVars, col.variables, e.variables)
      ELSE cliSent.envVars = col.variables

\* C16: exportCollection(id, outPath) for an id with a collection file leaves
\* exactly that file's content at outPath and the store as it was when the
\* command's StorageService had been constructed; for an id without one it
\* raises, and outPath is neither created nor changed.
C16_ExportCopiesOrRaises ==
  [][cliCmd'.name = "export" =>
       \A i \in 0 .. MaxTime :
         IdText(i) = cliCmd'.id =>
           /\ <<cdir, edir>>' = <<cdir, edir>>
           /\ configFile' = EnsuredConfig(configFile)
           /\ history' = EnsuredHistory(history)
           /\ IF JsonName(i) \in DOMAIN cdir
              THEN ~cliRaised' /\ outFile' = FileWith(cdir[JsonName(i)])
              ELSE cliRaised' /\ outFile' = outFile]_vars

\* C16's case: a collection was exported over the file an earlier export
\* had left at the output path.
C16_Witness ==
  /\ cliCmd.name = "export"
  /\ ~cliRaised
  /\ outFile.exists
  /\ outFile.content.valid
  /\ outFile.content.doc.id = 1

\* What the store operations persist, and the file an export wrote.
Persisted == <<cdir, edir, configFile, history, outFile>>

\* This step repeats the call before it: the same operation, given what the
\* call before was given (saveCollection's argument is the object the first
\* call stamped).
Retried ==
  /\ ret'.op = ret.op
  /\ ~ret.raised
  /\ CASE ret.op = "saveCollection" ->
             [ret'.doc EXCEPT !.updatedAt = ret'.before] = ret.doc
        [] ret.op = "saveEnvironment" -> ret'.doc = ret.doc
        [] ret.op \in {"deleteCollection", "deleteEnvironment", "exportCollection"} ->
             ret'.srcId = ret.srcId
        [] ret.op = "saveConfig" -> ret'.cap = ret.cap
        [] ret.op = "clearHistory" -> TRUE
        [] OTHER -> FALSE

\* C17 as claimed: a store operation other than addToHistory and
\* importCollection, repeated with the same argument, leaves the persisted
\* state the first call left.
C17_IdempotentOnRetry ==
  [][Retried => Persisted' = Persisted]_vars

\* C17 as amended: the same, but for saveCollection, whose repeat stamps
\* updatedAt again (never earlier) and leaves everything else.
C17_IdempotentButForStamp ==
  [][Retried =>
       IF ret.op = "saveCollection"
       THEN /\ <<edir, configFile, history, outFile>>' = <<edir, configFile, history, outFile>>
            /\ DOMAIN cdir' = DOMAIN cdir
            /\ \A n \in DOMAIN cdir :
                 IF n = JsonName(ret.doc.id)
                 THEN /\ cdir'[n].valid
                      /\ cdir'[n].doc.updatedAt >= ret.doc.updatedAt
                      /\ cdir'[n].doc = [ret.doc EXCEPT !.updatedAt = cdir'[n].doc.updatedAt]
                 ELSE cdir'[n] = cdir[n]
       ELSE Persisted' = Persisted]_vars

\* A saveCollection stamped, later again, a document that a saveCollection
\* before it had stamped.
C17_Witness ==
  /\ ret.op = "saveCollection"
  /\ ret.before >= InitTime
  /\ ret.doc.updatedAt > ret.before
  /\ cdir[JsonName(ret.doc.id)] = Parseable(ret.doc)

\* C18: loadConfig and loadHistory never raise; loadConfig returns the
\* built-in defaults (theme dark, defaultTimeout 30000, followRedirects true,
\* validateSSL true, maxHistorySize 100) whenever config.json is missing,
\* unreadable or not JSON, and loadHistory returns the empty list whenever
\* history.json is.
C18_LoadRecovery ==
  /\ ret.op = "loadConfig" =>
       /\ ~ret.raised
       /\ ~configFile.valid =>
            /\ ret.cfg.theme = "dark"
            /\ ret.cfg.defaultTimeout = 30000
            /\ ret.cfg.followRedirects
            /\ ret.cfg.validateSSL
            /\ ret.cfg.maxHistorySize = 100
            /\ DOMAIN ret.cfg = {"theme", "defaultTimeout", "followRedirects",
                                 "validateSSL", "maxHistorySize"}
  /\ ret.op = "loadHistory" =>
       /\ ~ret.raised
       /\ ~history.valid => ret.list = <<>>

\* loadConfig was called on a config.json cut short, after entries had been
\* added to a history.json that could not be used.
C18_Witness ==
  /\ ret.op = "loadConfig"
  /\ ~configFile.valid
  /\ configFile.why = "malformed"
  /\ history.valid
  /\ Len(history.list) > MaxCap

\* The sendRequest call has ended.
Ended == sPc \in {"returned", "raised"}

\* C19: every config handed to axios carries timeout 30000, whatever
\* defaultTimeout config.json holds; every sendRequest call eventually ends,
\* either returning a Response or raising an error, never both and never
\* changing its outcome afterwards.
C19_FixedTimeoutAndTermination ==
  /\ [](Dispatched => sConfig.timeout = 30000)
  /\ <>Ended
  /\ [](/\ sPc = "returned" => sOutcome.kind = "response"
        /\ sPc = "raised" => sOutcome.kind = "error"
        /\ ~Ended => sOutcome = NoOutcome)
  /\ [][Ended => (sPc' = sPc /\ sOutcome' = sOutcome)]_vars

\* A call under a stored defaultTimeout other than 30000 ended after the
\* transport left it without a response.
C19_Witness ==
  /\ configFile.cfg.defaultTimeout # 30000
  /\ Dispatched
  /\ sTransport = NoResponse
  /\ sPc = "raised"

\* The urls the TUI can send, resolved with the owning collection's and the
\* environment's variables.
ResolvedUrls == {ProcessVariables(u, TuiVariables) : u \in SavedUrls \cup TypedUrls}

\* C21: a request executed from the TUI reaches sendRequest with the owning
\* collection's variables merged with the environment's, so the url axios is
\* called with has the placeholders they define resolved.
C21_VariablesReachExecutor ==
  \A c \in axiosCalls : c.url \in ResolvedUrls

\* The collections a loadCollections over the directory returns.
Loaded(dir) == {LoadCollections(dir)[k] : k \in 1 .. Len(LoadCollections(dir))}

\* A loadCollections over the directory returns a collection with a request
\* of this id and url.
Holds(dir, id, u) ==
  \E c \in Loaded(dir) : \E i \in 1 .. Len(c.requests) :
    c.requests[i].id = id /\ c.requests[i].url = u

\* C22: when a request is selected and the user saves it (Ctrl+S as the App
\* or the RequestBuilder hears it, or the Save button), a loadCollections
\* afterwards returns a collection holding a request with its id and the
\* saved url.
C22_SavePersists ==
  [][/\ AppCtrlS => Holds(cdir', selectedRequest.id, selectedRequest.url)
     /\ (~selectedRequest.isNull /\ (BuilderCtrlS \/ ClickSave)) =>
          Holds(cdir', selectedRequest.id, builderUrl)]_vars

\* No two requests of the collection share an id.
UniqueIds(c) ==
  \A i, j \in 1 .. Len(c.requests) : c.requests[i].id = c.requests[j].id => i = j

\* C23: in every persisted collection no two requests share an id, and no
\* step takes from a persisted collection a request the user made to put
\* another of the user's requests in its place: each persisted request is
\* still there afterwards, under its id, as the request it was.
C23_UniqueRequestIds ==
  /\ [](\A c \in Loaded(cdir) : UniqueIds(c))
  /\ [][\A c \in Loaded(cdir) : \A i \in 1 .. Len(c.requests) :
         \E d \in Loaded(cdir') :
           /\ d.id = c.id
           /\ \E j \in 1 .. Len(d.requests) :
                /\ d.requests[j].id = c.requests[i].id
                /\ d.requests[j].origin = c.requests[i].origin]_vars

\* The ids of the requests of a collection.
RequestIds(c) == {c.requests[i].id : i \in 1 .. Len(c.requests)}

\* C24: in every collection loadCollections returns, every request id a
\* folder lists is the id of a request of that collection.
C24_FolderReferences ==
  \A c \in Loaded(cdir) : \A f \in 1 .. Len(c.folders) :
    \A i \in 1 .. Len(c.folders[f].requests) :
      c.folders[f].requests[i] \in RequestIds(c)

\* C25: importCollection raises exactly when its source file cannot be read
\* or parsed, and a call that raised created, changed and removed no
\* collection file: loadCollections returns what it returned before.
C25_ImportFailureChangesNothing ==
  /\ [](ret.op = "importCollection" => (ret.raised <=> ~ret.srcValid))
  /\ [][(ret'.op = "importCollection" /\ ret'.raised) =>
          /\ cdir' = cdir
          /\ LoadCollections(cdir') = LoadCollections(cdir)]_vars

\* An import failed on a store that held a collection.
C25_Witness ==
  /\ ret.op = "importCollection"
  /\ ret.raised
  /\ ~ret.srcValid
  /\ LoadCollections(cdir) # <<>>

\* The ids of the collections loadCollections returns.
LoadedIds(dir) == {c.id : c \in Loaded(dir)}

\* The loaded collections but the one of this id.
Without(dir, i) == {c \in Loaded(dir) : c.id # i}

\* C26: from an empty directory, loadCollections returns one collection for
\* each id saved or imported and not deleted since, holding what the last
\* save of that id wrote: a save or import puts its document in the place of
\* the one of its id and leaves the others, a delete takes the one of its id
\* and leaves the others, nothing else changes the collections, and no
\* operation changes the environments, the config or the history.
C26_StoreIsMapById ==
  /\ [](Len(LoadCollections(cdir)) = Cardinality(LoadedIds(cdir)))
  /\ []((ret.op \in {"saveCollection", "importCollection"} /\ ~ret.raised) =>
          ret.doc \in Loaded(cdir))
  /\ [][/\ <<edir, configFile, history>>' = <<edir, configFile, history>>
         /\ Loaded(cdir') =
              IF ret'.op \in {"saveCollection", "importCollection"} /\ ~ret'.raised
              THEN Without(cdir, ret'.doc.id) \cup {ret'.doc}
              ELSE IF ret'.op = "deleteCollection"
              THEN Without(cdir, ret'.srcId)
              ELSE Loaded(cdir)]_vars

\* One of two collections was deleted and the other is still loaded.
C26_Witness ==
  /\ ret.op = "deleteCollection"
  /\ ret.srcId >= InitTime
  /\ ret.srcId \notin LoadedIds(cdir)
  /\ Cardinality(LoadedIds(cdir)) = 1

\* The send went out with an auth that has its credentials.
AuthSend(types) ==
  /\ Dispatched
  /\ sReq.hasAuth
  /\ sReq.auth.has
  /\ sReq.auth.type \in types

\* C27: the Authorization header of the config axios gets is the one made of
\* a bearer, basic or jwt auth, and the entry under the key of an apikey auth
\* is the resolved api-key value, whatever enabled headers and params the
\* request has.
C27_AuthTakesPrecedence ==
  /\ AuthSend({"bearer", "jwt"}) =>
       sConfig.headers["Authorization"] =
         BearerPrefix \o ProcessVariables(sReq.auth.token.s, sVars)
  /\ AuthSend({"basic"}) =>
       sConfig.headers["Authorization"] =
         BasicPrefix \o Base64(Bytes(ProcessVariables(sReq.auth.username.s, sVars)
                                       \o <<":">>
                                       \o ProcessVariables(sReq.auth.password.s, sVars)))
  /\ AuthSend({"apikey"}) =>
       IF sReq.auth.addTo = "header"
       THEN sConfig.headers[sReq.auth.key] = ProcessVariables(sReq.auth.value.s, sVars)
       ELSE sConfig.params[sReq.auth.key] = ProcessVariables(sReq.auth.value.s, sVars)

\* C28: once no send of the App is in flight, loading is false and the
\* response is the outcome of the send that began last; and whenever loading
\* is false no send is in flight.
C28_ResponseOfLatestSend ==
  /\ (inFlight = 0 /\ response # "null") => (~loading /\ shown = "latest")
  /\ ~loading => inFlight = 0

(***************************************************************************)
(* The ResponseViewer.                                                     *)
(***************************************************************************)
\* The response the catch block of App.handleSendRequest stores.
CaughtResponse == [isNull |-> FALSE, status |-> 0, statusText |-> "Error"]

\* The response prop of the ResponseViewer when the App holds none.
NullResponse == [isNull |-> TRUE, status |-> 0, statusText |-> ""]

\* const isError = response.status >= 400
IsError(resp) == resp.status >= 400

\* ResponseViewer.render(): the loading state, the empty state, the error
\* state with the footer "Request failed", or the view tabs and the body with
\* the footer "Response received successfully".
Render(resp, isLoading) ==
  IF isLoading THEN "loading"
  ELSE IF resp.isNull THEN "empty"
  ELSE IF IsError(resp) THEN "error"
  ELSE "success"

\* C29: the response the App stores when sendRequest raises is rendered by
\* the ResponseViewer in its error state, never in its success state with
\* the footer saying the response was received successfully.
C29_FailedSendShownAsFailure ==
  response = "error" => Render(CaughtResponse, loading) = "error"

\* C30: the cursor of the CollectionBrowser is never negative, and whenever
\* the list it shows has items the cursor is on one of them.
C30_CursorInRange ==
  /\ selectedIndex >= 0
  /\ Items # <<>> => selectedIndex < Len(Items)

=============================================================================
